---- MODULE Spec2Model ----
(***************************************************************************)
(* Workbook RAG server (mcp-servers/workbook-rag/server.py): the in-memory *)
(* document cache, the corpus loader, the grep entry point and the stdin    *)
(* read loop, together with the part of the file system they look at.       *)
(*                                                                          *)
(* Text is modelled as a sequence of tokens; paths and workbook ids are     *)
(* sequences of characters so that str.startswith is computed, not assumed. *)
(***************************************************************************)
EXTENDS Integers, Sequences, FiniteSets, TLC

\* ------------------------------------------------------------------ bounds
\* Largest value of the file-system clock (mtimes are 1..MaxTime).
MaxTime == 2

\* ------------------------------------------------------------- constants
\* `_cache_timestamp = None`
NoStamp == -1
\* A JSON null id (Python's None)
NullId == "null"
\* A file or directory that is not on disk; a workbook.json that is not there
NoFile == [exists |-> FALSE, body |-> "empty", mtime |-> 0]
NoMeta == [state |-> "absent", mtime |-> 0]
\* No corpus load is in progress.
NotLoading ==
    [pc |-> "idle", i |-> 0, workbook_ids |-> {}, file_mtime |-> 0,
     content |-> <<>>, documents |-> <<>>]

\* grep_workbooks' cap on the pattern length
MAX_PATTERN_LEN == 500
\* JSON-RPC "parse error"; jupyter-server answers unparsable lines with it,
\* no statement of workbook-rag does
ParseErrorCode == -32700
\* JSON-RPC "method not found" and "internal error", as workbook-rag uses them
MethodNotFoundCode == -32601
InternalErrorCode == -32603

\* Workbook ids are directory names; "w" is a string prefix of "w2".
WbA == <<"w">>
WbB == <<"w", "2">>
Workbooks == {WbA, WbB}

\* Document descriptors of each workbook.json: [wb, path, ext].
DocA == [wb |-> WbA, path |-> <<"a">>, ext |-> "txt"]
DocB == [wb |-> WbB, path |-> <<"b">>, ext |-> "pdf"]
Docs == {DocA, DocB}
\* workbooks_dir.iterdir() followed by metadata['documents'], one fixed order.
ScanOrder == <<DocA, DocB>>

\* File bodies.  "binary" is a byte string that pypdf rejects and that is not
\* valid UTF-8; "alpha" is well-formed text or a well-formed PDF carrying it;
\* "empty" is a file of no bytes.
Bodies(d) ==
    IF d.ext = "pdf" THEN {"alpha", "binary"} ELSE {"alpha", "empty", "binary"}

\* Extracted texts, as token sequences.
TxtEmpty == <<>>
TxtAlpha == <<"alpha">>
\* what latin-1 makes of the bytes of "binary"
TxtLatin1 == <<"mojibake">>
TxtPdfError == <<"Error", "extracting", "PDF:">>
TxtUndecodable == <<"Could", "not", "decode", "file:">>
\* the text of a well-formed file whose first word is "Error" (body "errlog")
TxtErrorLog == <<"Error", "budget", "review">>

VARIABLES
    now,               \* file-system clock
    root,              \* <data>/workbooks: [exists, mtime]
    meta,              \* workbook id -> [state, mtime] of its workbook.json
    disk,              \* document -> [exists, body, mtime]
    meta_changed,      \* history: a workbook.json was written or deleted since
                       \* the last corpus load that computed a stamp
    _document_cache,   \* cache key -> [content, mtime]
    _cache_timestamp,  \* stamp recorded by the last load, or NoStamp
    documents,         \* what the corpus load of the step just taken returned
    request,           \* the module-level name `request` of the read loop
    running,           \* the process has not terminated
    line,              \* the last line read from stdin: [json, id]
    loading,           \* the corpus load in progress, when its steps are
                       \* interleaved with the file system: [pc, ...]
    response           \* the last line printed by the read loop

vars == <<now, root, meta, disk, meta_changed, _document_cache,
          _cache_timestamp, documents, request, running, line, loading,
          response>>

fsVars == <<now, root, meta, disk>>

Max(a, b) == IF a >= b THEN a ELSE b

\* str.startswith
StartsWith(s, prefix) ==
    /\ Len(prefix) <= Len(s)
    /\ SubSeq(s, 1, Len(prefix)) = prefix

\* str(data_dir / "workbooks" / workbook_id)
WorkbookDir(w) == <<"~", "/">> \o w

\* cache_key = str(workbook_dir / relative_path)
CacheKey(d) == WorkbookDir(d.wb) \o <<"/">> \o d.path

Keys == {CacheKey(d) : d \in Docs}

\* Path(k).exists() for a cache key
KeyExists(k) == \E d \in Docs : CacheKey(d) = k /\ disk[d].exists

EmptyCache == [k \in {} |-> [content |-> <<>>, mtime |-> 0]]

\* ------------------------------------------------------------ extraction
\* The text a well-formed body carries.
TextOf(body) ==
    IF body = "empty" THEN TxtEmpty
    ELSE IF body = "errlog" THEN TxtErrorLog ELSE TxtAlpha

\* extract_text_from_pdf: any exception becomes an "Error ..." string.
ExtractTextFromPdf(body) ==
    IF body = "binary" THEN TxtPdfError ELSE TextOf(body)

\* file_path.read_text(encoding=...): does it decode, and to what.  latin-1
\* and cp1252 map every byte string to some text.
Encodings == <<"utf-8", "utf-8-sig", "latin-1", "cp1252">>
Decodes(encoding, body) ==
    encoding \in {"latin-1", "cp1252"} \/ body # "binary"
Decoded(encoding, body) ==
    IF body = "binary" THEN TxtLatin1 ELSE TextOf(body)

\* The `for encoding in encodings` loop of read_file.
RECURSIVE ReadText(_, _)
ReadText(i, body) ==
    IF i > Len(Encodings) THEN TxtUndecodable
    ELSE IF Decodes(Encodings[i], body) THEN Decoded(Encodings[i], body)
    ELSE ReadText(i + 1, body)

\* read_file: dispatch on the extension; every failure is a string.
ReadFile(d) ==
    IF d.ext = "pdf" THEN ExtractTextFromPdf(disk[d].body)
    ELSE ReadText(1, disk[d].body)

\* content.startswith("Error")
StartsWithError(content) == Len(content) > 0 /\ content[1] = "Error"

\* Faulty variant: every non-empty string is cached.
CacheableNonEmpty(content) == content # <<>>

\* `content and not content.startswith("Error")`
Cacheable(content) == content # <<>> /\ ~StartsWithError(content)

\* ------------------------------------------------------------------ cache
\* Faulty variant: nothing is pruned.
PruneNothing(cache) == cache

\* _prune_document_cache: drop the entries whose file no longer exists.
PruneDocumentCache(cache) ==
    [k \in {x \in DOMAIN cache : KeyExists(x)} |-> cache[k]]

\* The workbook.json files workbooks_dir.glob("*/workbook.json") yields.
MetaFiles == {w \in Workbooks : meta[w].state # "absent"}

\* _compute_cache_stamp: max of 0.0, the root mtime, every workbook.json mtime.
RECURSIVE MaxMetaMtime(_, _)
MaxMetaMtime(ws, acc) ==
    IF ws = {} THEN acc
    ELSE LET w == CHOOSE x \in ws : TRUE
         IN MaxMetaMtime(ws \ {w}, Max(acc, meta[w].mtime))

ComputeCacheStamp ==
    MaxMetaMtime(MetaFiles, IF root.exists THEN Max(0, root.mtime) ELSE 0)

\* `_cache_timestamp is not None and current_stamp <= _cache_timestamp`
StampValid(stamp, current) == stamp # NoStamp /\ current <= stamp

\* Faulty variant: any entry for the file is reused, whatever its mtime.
CacheHitAnyMtime(cache, d) == CacheKey(d) \in DOMAIN cache

\* Faulty variant: the comparison is the wrong way round.
CacheHitReversed(cache, d) ==
    /\ CacheKey(d) \in DOMAIN cache
    /\ disk[d].mtime >= cache[CacheKey(d)].mtime

\* `if file_mtime <= cached_mtime` : the entry may be reused.
CacheHit(cache, d) ==
    /\ CacheKey(d) \in DOMAIN cache
    /\ disk[d].mtime <= cache[CacheKey(d)].mtime

\* One iteration of the document loop for an existing file: returns the cache
\* after it and the content (<<>> when the record is skipped).
LoadDocument(cache, d) ==
    LET k == CacheKey(d)
        hit == CacheHit(cache, d)
        \* a stale entry is popped before the re-extraction
        c0 == IF k \in DOMAIN cache /\ ~hit
              THEN [x \in DOMAIN cache \ {k} |-> cache[x]]
              ELSE cache
        cached == IF hit THEN cache[k].content ELSE <<>>
        content == IF cached # <<>> THEN cached ELSE ReadFile(d)
        c1 == IF cached = <<>> /\ Cacheable(content)
              THEN [x \in DOMAIN c0 \cup {k} |->
                      IF x = k THEN [content |-> content, mtime |-> disk[d].mtime]
                      ELSE c0[x]]
              ELSE c0
    IN [cache |-> c1, content |-> content,
        branch |-> IF cached # <<>> THEN "hit"
                   ELSE IF k \in DOMAIN cache THEN "stale" ELSE "miss"]

\* `workbook_id_allowlist = set(workbook_ids) if workbook_ids else None`
\* (None and [] are both the empty set here)
InScope(w, workbook_ids) == workbook_ids = {} \/ w \in workbook_ids

\* The documents the loop reaches: workbook in scope, workbook.json parses,
\* file exists.
Scanned(d, workbook_ids) ==
    /\ InScope(d.wb, workbook_ids)
    /\ meta[d.wb].state = "ok"
    /\ disk[d].exists

\* `documents` when the step just taken loaded no corpus, and when it
\* loaded one: the list returned, and which branches the load took (the keys
\* _prune_document_cache removed, the documents served from the cache, the
\* documents whose entry was popped as stale, the documents that had no entry).
\* `raised` tells that the load ended in an exception and returned nothing.
NoLoad == [called |-> FALSE, list |-> <<>>, pruned |-> {}, hits |-> {},
           stale |-> {}, misses |-> {}, raised |-> FALSE]
Loaded(l) == [called |-> TRUE, list |-> l.documents, pruned |-> l.pruned,
              hits |-> l.hits, stale |-> l.stale, misses |-> l.misses,
              raised |-> l.raised]

\* The record appended for a document.
Record(d, content) ==
    [workbook_id |-> d.wb, path |-> d.path, filepath |-> CacheKey(d),
     content |-> content]

\* `metadata.get('name', ...)` on a workbook.json that json.load accepted but
\* that holds a list, a string, a number or null: AttributeError, which no
\* handler inside get_all_workbook_documents catches.
MetadataGetRaises(w, workbook_ids) ==
    InScope(w, workbook_ids) /\ meta[w].state = "other"

\* The workbook and document loops of get_all_workbook_documents.  An
\* exception ends them: the list built so far is lost, the cache keeps what
\* the earlier iterations stored.
RECURSIVE ScanDocuments(_, _, _, _)
ScanDocuments(i, cache, acc, workbook_ids) ==
    IF i > Len(ScanOrder) THEN [cache |-> cache] @@ acc
    ELSE IF MetadataGetRaises(ScanOrder[i].wb, workbook_ids)
    THEN [cache |-> cache] @@ [acc EXCEPT !.documents = <<>>, !.raised = TRUE]
    ELSE IF ~Scanned(ScanOrder[i], workbook_ids)
    THEN ScanDocuments(i + 1, cache, acc, workbook_ids)
    ELSE CHOOSE out \in
           {ScanDocuments(i + 1, r.cache,
              [documents |-> IF Cacheable(r.content)
                             THEN Append(acc.documents,
                                         Record(ScanOrder[i], r.content))
                             ELSE acc.documents,
               hits |-> IF r.branch = "hit" THEN acc.hits \cup {ScanOrder[i]}
                        ELSE acc.hits,
               stale |-> IF r.branch = "stale" THEN acc.stale \cup {ScanOrder[i]}
                         ELSE acc.stale,
               misses |-> IF r.branch = "miss" THEN acc.misses \cup {ScanOrder[i]}
                          ELSE acc.misses,
               raised |-> acc.raised],
              workbook_ids)
            : r \in {LoadDocument(cache, ScanOrder[i])}} : TRUE

\* get_all_workbook_documents: [documents, cache, stamp] after the call, and
\* the branches taken [pruned, hits, stale, misses].
GetAllWorkbookDocuments(cache, stamp, workbook_ids) ==
    IF ~root.exists
    THEN [documents |-> <<>>, cache |-> cache, stamp |-> stamp,
          pruned |-> {}, hits |-> {}, stale |-> {}, misses |-> {},
          raised |-> FALSE]
    ELSE LET pruned == PruneDocumentCache(cache)
             valid == StampValid(stamp, ComputeCacheStamp)
         IN [stamp |-> IF valid THEN stamp ELSE ComputeCacheStamp,
             pruned |-> DOMAIN cache \ DOMAIN pruned]
            @@ ScanDocuments(1, IF valid THEN pruned ELSE EmptyCache,
                             [documents |-> <<>>, hits |-> {}, stale |-> {},
                              misses |-> {}, raised |-> FALSE],
                             workbook_ids)

\* Faulty variant: the scope-"all" branch leaves the stamp as it was.
ClearCacheKeepsStamp(cache, stamp, workbook_id, file_path) ==
    IF file_path # <<>>
    THEN LET removed == IF file_path \in DOMAIN cache THEN 1 ELSE 0
         IN [result |-> [cleared |-> removed, scope |-> "file"],
             cache |-> [k \in DOMAIN cache \ {file_path} |-> cache[k]],
             stamp |-> stamp]
    ELSE IF workbook_id # <<>>
    THEN LET prefix == WorkbookDir(workbook_id)
             gone == {k \in DOMAIN cache : StartsWith(k, prefix)}
         IN [result |-> [cleared |-> Cardinality(gone), scope |-> "workbook"],
             cache |-> [k \in DOMAIN cache \ gone |-> cache[k]],
             stamp |-> stamp]
    ELSE [result |-> [cleared |-> Cardinality(DOMAIN cache), scope |-> "all"],
          cache |-> EmptyCache,
          stamp |-> stamp]

\* clear_cache: [result, cache, stamp] after the call.  An argument that is
\* None or "" is the empty sequence.
ClearCache(cache, stamp, workbook_id, file_path) ==
    IF file_path # <<>>
    THEN LET removed == IF file_path \in DOMAIN cache THEN 1 ELSE 0
         IN [result |-> [cleared |-> removed, scope |-> "file"],
             cache |-> [k \in DOMAIN cache \ {file_path} |-> cache[k]],
             stamp |-> stamp]
    ELSE IF workbook_id # <<>>
    THEN LET prefix == WorkbookDir(workbook_id)
             gone == {k \in DOMAIN cache : StartsWith(k, prefix)}
         IN [result |-> [cleared |-> Cardinality(gone), scope |-> "workbook"],
             cache |-> [k \in DOMAIN cache \ gone |-> cache[k]],
             stamp |-> stamp]
    ELSE [result |-> [cleared |-> Cardinality(DOMAIN cache), scope |-> "all"],
          cache |-> EmptyCache,
          stamp |-> NoStamp]

\* ------------------------------------------------------------------- grep
\* Code points of the characters used in ids and paths.
Ord(c) ==
    CASE c = "/" -> 47 [] c = "2" -> 50 [] c = "a" -> 97
      [] c = "b" -> 98 [] c = "w" -> 119 [] OTHER -> 126

\* Python's `<` on strings.
RECURSIVE StrLess(_, _)
StrLess(s, t) ==
    IF t = <<>> THEN FALSE
    ELSE IF s = <<>> THEN TRUE
    ELSE IF Ord(Head(s)) # Ord(Head(t)) THEN Ord(Head(s)) < Ord(Head(t))
    ELSE StrLess(Tail(s), Tail(t))

\* Sort key (workbook_id, path, filename) of grep_workbooks; the filename is
\* the last component of the path here.
DocLess(a, b) ==
    \/ StrLess(a.workbook_id, b.workbook_id)
    \/ a.workbook_id = b.workbook_id /\ StrLess(a.path, b.path)

RECURSIVE InsertDoc(_, _)
InsertDoc(sorted, r) ==
    IF sorted = <<>> THEN <<r>>
    ELSE IF DocLess(r, Head(sorted)) THEN <<r>> \o sorted
    ELSE <<Head(sorted)>> \o InsertDoc(Tail(sorted), r)

\* Faulty variant: the records stay in enumeration order.
SortDocsKeepOrder(ds) == ds

\* docs.sort(key=...)  (stable)
RECURSIVE SortDocs(_)
SortDocs(ds) ==
    IF ds = <<>> THEN <<>>
    ELSE InsertDoc(SortDocs(SubSeq(ds, 1, Len(ds) - 1)), ds[Len(ds)])

\* In the texts grep is run on, a symbol is one character.  str.lower() on
\* the characters used (every other symbol is its own lower case).
Lower(c) ==
    CASE c = "A" -> "a" [] c = "B" -> "b" [] c = "F" -> "f" [] c = "O" -> "o"
      [] c = "R" -> "r" [] c = "X" -> "x" [] OTHER -> c

\* Faulty variant: the text is searched as it stands.
LowerStrIdentity(s) == s

LowerStr(s) == [i \in 1..Len(s) |-> Lower(s[i])]

\* Patterns, as sequences of characters.
PatAlpha == <<"alpha">>
PatParen == <<"(">>
PatLong == [i \in 1..(MAX_PATTERN_LEN + 1) |-> "x"]
PatCap == [i \in 1..MAX_PATTERN_LEN |-> "y"]
PatEmpty == <<>>
Patterns == {PatAlpha, PatParen, PatLong, PatCap, PatEmpty}

\* re.compile(pattern, flags) accepts the pattern: of the characters used,
\* only "(" (a group that is never closed) makes it raise re.error.
RegexValid(pattern) == \A i \in 1..Len(pattern) : pattern[i] # "("

\* haystack.find(needle, i): the least offset >= i at which needle occurs,
\* or -1.  Offsets are 0-based, as in Python.
Find(haystack, needle, i) ==
    LET at == {j \in i..(Len(haystack) - Len(needle)) :
                 SubSeq(haystack, j + 1, j + Len(needle)) = needle}
    IN IF at = {} THEN -1 ELSE CHOOSE j \in at : \A k \in at : j <= k

\* The `while True` loop of the literal branch.
RECURSIVE FindLoop(_, _, _, _, _)
FindLoop(haystack, needle, i, matches, max_matches) ==
    IF Len(matches) >= max_matches THEN matches
    ELSE CHOOSE out \in
           {IF idx = -1 THEN matches
            ELSE FindLoop(haystack, needle, idx + Len(needle),
                          Append(matches, [start |-> idx,
                                           end |-> idx + Len(needle)]),
                          max_matches)
            : idx \in {Find(haystack, needle, i)}} : TRUE

\* Faulty variant: "." stands for itself, as in the literal branch.
CharMatchesLiteralDot(p, c, ignorecase) ==
    IF ignorecase THEN Lower(p) = Lower(c) ELSE p = c

\* One pattern character against one character of the text, for a pattern
\* compiled with re.MULTILINE and, if ignorecase, re.IGNORECASE: "." is any
\* character but a newline, every other character used stands for itself.
CharMatches(p, c, ignorecase) ==
    IF p = "." THEN c # "\n"
    ELSE IF ignorecase THEN Lower(p) = Lower(c)
    ELSE p = c

\* The compiled pattern matches at offset i.
MatchAt(content, pattern, ignorecase, i) ==
    /\ i + Len(pattern) <= Len(content)
    /\ \A j \in 1..Len(pattern) :
         CharMatches(pattern[j], content[i + j], ignorecase)

\* The start of the next match compiled.finditer yields from offset i on,
\* or -1.
Search(content, pattern, ignorecase, i) ==
    LET at == {j \in i..(Len(content) - Len(pattern)) :
                 MatchAt(content, pattern, ignorecase, j)}
    IN IF at = {} THEN -1 ELSE CHOOSE j \in at : \A k \in at : j <= k

\* The `for m in compiled.finditer(content_str)` loop.
RECURSIVE FinditerLoop(_, _, _, _, _, _)
FinditerLoop(content, pattern, ignorecase, i, matches, max_matches) ==
    CHOOSE out \in
      {IF idx = -1 \/ Len(matches) >= max_matches THEN matches
       ELSE FinditerLoop(content, pattern, ignorecase, idx + Len(pattern),
                         Append(matches, [start |-> idx,
                                          end |-> idx + Len(pattern)]),
                         max_matches)
       : idx \in {Search(content, pattern, ignorecase, i)}} : TRUE

\* Faulty variant: a line is taken to start at its newline character.
RECURSIVE LineStartsAtNewline(_, _, _)
LineStartsAtNewline(content, idx, line_starts) ==
    IF idx >= Len(content) THEN line_starts
    ELSE IF content[idx + 1] = "\n"
    THEN LineStartsAtNewline(content, idx + 1, Append(line_starts, idx))
    ELSE LineStartsAtNewline(content, idx + 1, line_starts)

\* `for idx, ch in enumerate(content_str)`: the 0-based offsets at which the
\* lines start, from line_starts = [0].
RECURSIVE LineStarts(_, _, _)
LineStarts(content, idx, line_starts) ==
    IF idx >= Len(content) THEN line_starts
    ELSE IF content[idx + 1] = "\n"
    THEN LineStarts(content, idx + 1, Append(line_starts, idx + 1))
    ELSE LineStarts(content, idx + 1, line_starts)

\* The loop of _line_col: the 0-based index of the last line start <= pos
\* before the first one that is greater.
RECURSIVE LineIndex(_, _, _, _)
LineIndex(line_starts, pos, j, line_idx) ==
    IF j >= Len(line_starts) THEN line_idx
    ELSE IF line_starts[j + 1] <= pos
    THEN LineIndex(line_starts, pos, j + 1, j)
    ELSE line_idx

\* _line_col: 1-based (line, col) of an offset.
LineCol(line_starts, pos) ==
    LET line_idx == LineIndex(line_starts, pos, 0, 0)
    IN [line |-> line_idx + 1, col |-> pos - line_starts[line_idx + 1] + 1]

SNIPPET_RADIUS == 80

\* content_str[snippet_start:snippet_end] with "..." where it was cut.
Snippet(content, start, end) ==
    LET snippet_start == Max(0, start - SNIPPET_RADIUS)
        snippet_end == IF Len(content) <= end + SNIPPET_RADIUS
                       THEN Len(content) ELSE end + SNIPPET_RADIUS
    IN (IF snippet_start > 0 THEN <<".", ".", ".">> ELSE <<>>)
       \o SubSeq(content, snippet_start + 1, snippet_end)
       \o (IF snippet_end < Len(content) THEN <<".", ".", ".">> ELSE <<>>)

\* The enrichment loop: every match gets its line, col and snippet.
Enrich(content, matches) ==
    LET line_starts == LineStarts(content, 0, <<0>>)
    IN [k \in 1..Len(matches) |->
          [start |-> matches[k].start, end |-> matches[k].end,
           line |-> LineCol(line_starts, matches[k].start).line,
           col |-> LineCol(line_starts, matches[k].start).col,
           snippet |-> Snippet(content, matches[k].start, matches[k].end)]]

\* _iter_grep_matches: [raised, matches]; a match is [start, end) with its
\* line, col and snippet.
IterGrepMatches(content, pattern, regex, case_sensitive, max_matches) ==
    IF pattern = <<>> THEN [raised |-> FALSE, matches |-> <<>>]
    ELSE IF regex
    THEN IF ~RegexValid(pattern) THEN [raised |-> TRUE, matches |-> <<>>]
         ELSE [raised |-> FALSE,
               matches |-> Enrich(content,
                                  FinditerLoop(content, pattern, ~case_sensitive,
                                               0, <<>>, max_matches))]
    ELSE [raised |-> FALSE,
          matches |-> Enrich(content,
                             FindLoop(IF case_sensitive THEN content
                                      ELSE LowerStr(content),
                                      IF case_sensitive THEN pattern
                                      ELSE LowerStr(pattern),
                                      0, <<>>, max_matches))]

\* The `for doc in docs` loop of grep_workbooks.
RECURSIVE GrepLoop(_, _, _, _, _, _, _)
GrepLoop(docs, results, pattern, regex, case_sensitive, max_results, max_matches) ==
    IF docs = <<>>
    THEN [raised |-> FALSE, results |-> results, truncated |-> FALSE]
    ELSE IF Len(results) >= max_results
    THEN [raised |-> FALSE, results |-> results, truncated |-> TRUE]
    ELSE CHOOSE out \in
           {IF m.raised
            THEN [raised |-> TRUE, results |-> <<>>, truncated |-> FALSE]
            ELSE GrepLoop(Tail(docs),
                          IF m.matches = <<>> THEN results
                          ELSE Append(results,
                                      [workbook_id |-> Head(docs).workbook_id,
                                       path |-> Head(docs).path,
                                       match_count |-> Len(m.matches),
                                       matches |-> m.matches]),
                          pattern, regex, case_sensitive, max_results,
                          max_matches)
            : m \in {IterGrepMatches(Head(docs).content, pattern, regex,
                                     case_sensitive, max_matches)}} : TRUE

\* Faulty variant: the loop stops on len(results) > max_results.
GrepDocumentsOffByOne(docs, pattern, regex, case_sensitive, max_results, max_matches_per_file) ==
    IF max_results <= 0
    THEN [raised |-> FALSE, results |-> <<>>, truncated |-> FALSE]
    ELSE IF Len(pattern) > MAX_PATTERN_LEN
    THEN [raised |-> TRUE, results |-> <<>>, truncated |-> FALSE]
    ELSE GrepLoop(SortDocs(docs), <<>>, pattern, regex, case_sensitive,
                  max_results + 1,
                  IF max_matches_per_file <= 0 THEN 1 ELSE max_matches_per_file)

\* grep_workbooks once the corpus is loaded: [raised, results, truncated]
\* for the list `docs` that get_all_workbook_documents returned (not loaded,
\* and not looked at, when an early return or the length check comes first).
GrepDocuments(docs, pattern, regex, case_sensitive, max_results, max_matches_per_file) ==
    IF max_results <= 0
    THEN [raised |-> FALSE, results |-> <<>>, truncated |-> FALSE]
    ELSE IF Len(pattern) > MAX_PATTERN_LEN
    THEN [raised |-> TRUE, results |-> <<>>, truncated |-> FALSE]
    ELSE GrepLoop(SortDocs(docs), <<>>, pattern, regex, case_sensitive,
                  max_results,
                  IF max_matches_per_file <= 0 THEN 1 ELSE max_matches_per_file)

\* grep_workbooks: [raised, results, truncated, documents, cache, stamp].
GrepWorkbooks(cache, stamp, pattern, regex, case_sensitive, max_results, max_matches_per_file, workbook_ids) ==
    IF max_results <= 0 \/ Len(pattern) > MAX_PATTERN_LEN
    THEN GrepDocuments(<<>>, pattern, regex, case_sensitive, max_results,
                       max_matches_per_file)
         @@ [documents |-> NoLoad, cache |-> cache, stamp |-> stamp]
    ELSE CHOOSE out \in
           {(IF l.raised
             THEN [raised |-> TRUE, results |-> <<>>, truncated |-> FALSE]
             ELSE GrepDocuments(l.documents, pattern, regex, case_sensitive,
                                max_results, max_matches_per_file))
            @@ [documents |-> Loaded(l), cache |-> l.cache, stamp |-> l.stamp]
            : l \in {GetAllWorkbookDocuments(cache, stamp, workbook_ids)}} : TRUE

\* ------------------------------------------------------------- responses
NoResponse ==
    [kind |-> "none", id |-> NullId, code |-> 0, cleared |-> 0, scope |-> "",
     results |-> <<>>, truncated |-> FALSE, text |-> <<>>, files |-> {}]

\* {'jsonrpc': '2.0', 'id': ..., 'result': ...}
Result(id) == [NoResponse EXCEPT !.kind = "result", !.id = id]

\* {'jsonrpc': '2.0', 'id': ..., 'error': {'code': ..., 'message': ...}}
ErrorResponse(id, code) ==
    [NoResponse EXCEPT !.kind = "error", !.id = id, !.code = code]

TxtNotFound == <<"File", "not", "found:">>

\* Faulty variant: a cached text is answered without looking at the file.
ReadWorkbookFileCached(workbook_id, file_path) ==
    LET hits == {d \in Docs : d.wb = workbook_id /\ d.path = file_path
                              /\ disk[d].exists}
        k == WorkbookDir(workbook_id) \o <<"/">> \o file_path
    IN IF hits = {} THEN TxtNotFound
       ELSE IF k \in DOMAIN _document_cache THEN _document_cache[k].content
       ELSE ReadFile(CHOOSE d \in hits : TRUE)

\* read_workbook_file: always reads the disk.
ReadWorkbookFile(workbook_id, file_path) ==
    LET hits == {d \in Docs : d.wb = workbook_id /\ d.path = file_path
                              /\ disk[d].exists}
    IN IF hits = {} THEN TxtNotFound
       ELSE ReadFile(CHOOSE d \in hits : TRUE)

\* list_all_files: the descriptors of the workbooks in scope whose
\* workbook.json parses.
ListAllFiles(workbook_ids) ==
    IF ~root.exists THEN {}
    ELSE {d \in Docs : InScope(d.wb, workbook_ids) /\ meta[d.wb].state = "ok"}

\* What a call leaves behind: the response, the module globals and the
\* corpus it loaded, if it loaded one.
Outcome(resp, cache, stamp, docs) ==
    [response |-> resp, cache |-> cache, stamp |-> stamp, documents |-> docs]

\* The body of a search entry point as far as the cache is concerned:
\* search_workbooks / search_workbooks_with_content load the corpus first.
SearchOutcome(req, cache, stamp, workbook_ids) ==
    CHOOSE out \in
      {Outcome(IF l.raised THEN ErrorResponse(req.id, InternalErrorCode)
               ELSE Result(req.id),
               l.cache, l.stamp, Loaded(l))
       : l \in {GetAllWorkbookDocuments(cache, stamp, workbook_ids)}} : TRUE

\* The tools/call branch of handle_request.
CallTool(req, cache, stamp) ==
    CASE req.tool = "rag_search_content" ->
           SearchOutcome(req, cache, stamp, req.workbook_ids)
      [] req.tool = "rag_list_files" ->
           Outcome([Result(req.id) EXCEPT !.files = ListAllFiles(req.workbook_ids)],
                   cache, stamp, NoLoad)
      [] req.tool = "rag_read_file" ->
           Outcome([Result(req.id) EXCEPT
                      !.text = ReadWorkbookFile(req.workbook_id, req.file_path)],
                   cache, stamp, NoLoad)
      [] req.tool = "rag_clear_cache" ->
           CHOOSE out \in
             {Outcome([Result(req.id) EXCEPT !.cleared = c.result.cleared,
                                             !.scope = c.result.scope],
                      c.cache, c.stamp, NoLoad)
              : c \in {ClearCache(cache, stamp, req.workbook_id, req.file_path)}}
             : TRUE
      [] req.tool = "rag_grep" ->
           CHOOSE out \in
             {Outcome(IF g.raised
                      THEN ErrorResponse(req.id, InternalErrorCode)
                      ELSE [Result(req.id) EXCEPT !.results = g.results,
                                                  !.truncated = g.truncated],
                      g.cache, g.stamp, g.documents)
              : g \in {GrepWorkbooks(cache, stamp, req.pattern, req.regex,
                                     req.case_sensitive, req.max_results,
                                     req.max_matches_per_file,
                                     req.workbook_ids)}} : TRUE
      [] OTHER ->
           Outcome(ErrorResponse(req.id, MethodNotFoundCode),
                   cache, stamp, NoLoad)

\* handle_request for a JSON object.  `params` is "dict" or the JSON type it
\* has instead; params.get on a non-dict raises inside the try block.
HandleRequest(req, cache, stamp) ==
    LET plain(resp) == Outcome(resp, cache, stamp, NoLoad)
        raised == plain(ErrorResponse(req.id, InternalErrorCode))
    IN CASE req.method \in {"initialize", "tools/list", "rag/health"} ->
              plain(Result(req.id))
         [] req.method = "tools/call" ->
              IF req.params # "dict" THEN raised
              ELSE CallTool(req, cache, stamp)
         [] req.method = "rag/search" ->
              IF req.params # "dict" THEN raised
              ELSE SearchOutcome(req, cache, stamp, {})
         [] req.method = "rag/search_content" ->
              IF req.params # "dict" THEN raised
              ELSE SearchOutcome(req, cache, stamp, req.workbook_ids)
         [] req.method = "rag/read_file" ->
              IF req.params # "dict" THEN raised
              ELSE plain([Result(req.id) EXCEPT
                            !.text = ReadWorkbookFile(req.workbook_id, req.file_path)])
         [] req.method = "rag/list_files" ->
              IF req.params # "dict" THEN raised
              ELSE plain([Result(req.id) EXCEPT
                            !.files = ListAllFiles(req.workbook_ids)])
         [] OTHER -> plain(ErrorResponse(req.id, MethodNotFoundCode))

\* -------------------------------------------------------------- read loop
Ids == {"1", "2"}

\* A line of stdin.  json is "dict" for a JSON object, "other" for any other
\* JSON value (list, number, string, null), "malformed" for text json.loads
\* rejects.  The remaining fields are the object's id, method and params.
BaseLine ==
    [json |-> "dict", id |-> NullId, method |-> "", tool |-> "",
     params |-> "dict", workbook_ids |-> {}, workbook_id |-> <<>>,
     file_path |-> <<>>, pattern |-> PatEmpty, regex |-> FALSE,
     case_sensitive |-> FALSE,
     max_results |-> 50, max_matches_per_file |-> 20]

\* What `line` keeps of a line: its JSON shape and the id it carries.
Shape(l) == [json |-> l.json, id |-> IF l.json = "dict" THEN l.id ELSE NullId]
NoLine == [json |-> "none", id |-> NullId]
Unset == [kind |-> "unset", id |-> NullId]

\* One iteration of `for line in sys.stdin`.  The result names the values of
\* the globals after it; running = FALSE when an exception escapes the loop.
LoopStep(l) ==
    LET keep == [request |-> request, running |-> TRUE, response |-> response,
                 cache |-> _document_cache, stamp |-> _cache_timestamp,
                 documents |-> NoLoad]
    IN IF l.json = "malformed"
       THEN \* json.loads raises; `request` still names the previous value
            IF request.kind = "unset"
            THEN [keep EXCEPT !.response = ErrorResponse(NullId, InternalErrorCode)]
            ELSE IF request.kind = "dict"
            THEN [keep EXCEPT !.response = ErrorResponse(request.id, InternalErrorCode)]
            ELSE [keep EXCEPT !.running = FALSE]
       ELSE IF l.json # "dict"
       THEN \* handle_request raises AttributeError before its try block and
            \* request.get('id') raises again inside the except clause
            [keep EXCEPT !.request = [kind |-> "other", id |-> NullId],
                         !.running = FALSE]
       ELSE [request |-> [kind |-> "dict", id |-> l.id], running |-> TRUE]
            @@ HandleRequest(l, _document_cache, _cache_timestamp)

ReadLine(l) ==
    /\ running
    /\ \E st \in {LoopStep(l)} :
          /\ request' = st.request
          /\ running' = st.running
          /\ response' = st.response
          /\ _document_cache' = st.cache
          /\ _cache_timestamp' = st.stamp
          /\ documents' = st.documents
          /\ meta_changed' = (meta_changed /\ ~(st.documents.called /\ root.exists))
    /\ line' = Shape(l)
    /\ UNCHANGED loading
    /\ UNCHANGED fsVars

LineIds == Ids \cup {NullId}
\* workbook_ids: absent (or []), or a list naming one workbook.
Scopes == {{}} \cup {{w} : w \in Workbooks}
MaxResultsInputs == {0, 1, 50}
MaxMatchesInputs == {0, 20}

MalformedLine == ReadLine([BaseLine EXCEPT !.json = "malformed"])

NonObjectLine == ReadLine([BaseLine EXCEPT !.json = "other"])

PlainRequest ==
    \E id \in LineIds, m \in {"initialize", "tools/list", "rag/health", "nope"} :
        ReadLine([BaseLine EXCEPT !.id = id, !.method = m])

BadParamsRequest ==
    \E id \in LineIds, m \in {"tools/call", "rag/search", "rag/list_files"} :
        ReadLine([BaseLine EXCEPT !.id = id, !.method = m, !.params = "str"])

UnknownToolRequest ==
    \E id \in LineIds :
        ReadLine([BaseLine EXCEPT !.id = id, !.method = "tools/call", !.tool = "nope"])

ListFilesRequest ==
    \E id \in LineIds, ws \in Scopes, m \in {"tools/call", "rag/list_files"} :
        ReadLine([BaseLine EXCEPT !.id = id, !.method = m, !.tool = "rag_list_files",
                                  !.workbook_ids = ws])

ReadFileRequest ==
    \E id \in LineIds, d \in Docs, m \in {"tools/call", "rag/read_file"} :
        ReadLine([BaseLine EXCEPT !.id = id, !.method = m, !.tool = "rag_read_file",
                                  !.workbook_id = d.wb, !.file_path = d.path])

SearchRequest ==
    \E id \in LineIds, ws \in Scopes,
       m \in {"tools/call", "rag/search", "rag/search_content"} :
        ReadLine([BaseLine EXCEPT !.id = id, !.method = m,
                                  !.tool = "rag_search_content", !.workbook_ids = ws])

ClearCacheRequest ==
    \E id \in LineIds, w \in Workbooks \cup {<<>>}, k \in Keys \cup {<<>>} :
        ReadLine([BaseLine EXCEPT !.id = id, !.method = "tools/call",
                                  !.tool = "rag_clear_cache",
                                  !.workbook_id = w, !.file_path = k])

GrepRequest ==
    \E id \in LineIds, p \in Patterns, re \in BOOLEAN, mr \in MaxResultsInputs,
       mm \in MaxMatchesInputs, ws \in Scopes :
        ReadLine([BaseLine EXCEPT !.id = id, !.method = "tools/call",
                                  !.tool = "rag_grep", !.pattern = p, !.regex = re,
                                  !.max_results = mr, !.max_matches_per_file = mm,
                                  !.workbook_ids = ws])

\* ------------------------------------------------------------ file system
\* A step of the file system is no corpus load and leaves the server alone.
ServerIdle ==
    /\ documents' = NoLoad
    /\ UNCHANGED <<_document_cache, _cache_timestamp, request, running, line,
                   loading, response>>

\* The clock moves on; a write made before the next tick has the same mtime.
Tick ==
    /\ now < MaxTime
    /\ now' = now + 1
    /\ UNCHANGED <<root, meta, disk, meta_changed>>
    /\ ServerIdle

WriteFile(d, body) ==
    /\ root.exists
    /\ disk' = [disk EXCEPT ![d] = [exists |-> TRUE, body |-> body, mtime |-> now]]
    /\ UNCHANGED <<now, root, meta, meta_changed>>
    /\ ServerIdle

DeleteFile(d) ==
    /\ disk[d].exists
    /\ disk' = [disk EXCEPT ![d] = NoFile]
    /\ UNCHANGED <<now, root, meta, meta_changed>>
    /\ ServerIdle

\* workbook.json is rewritten (state "ok") or left unparsable (state "bad");
\* state "other" is a workbook.json holding JSON that is not an object.
WriteMeta(w, state) ==
    /\ root.exists
    /\ meta' = [meta EXCEPT ![w] = [state |-> state, mtime |-> now]]
    /\ meta_changed' = TRUE
    /\ UNCHANGED <<now, root, disk>>
    /\ ServerIdle

DeleteMeta(w) ==
    /\ meta[w].state # "absent"
    /\ meta' = [meta EXCEPT ![w] = NoMeta]
    /\ meta_changed' = TRUE
    /\ UNCHANGED <<now, root, disk>>
    /\ ServerIdle

RemoveRoot ==
    /\ root.exists
    /\ root' = [exists |-> FALSE, mtime |-> 0]
    /\ meta' = [w \in Workbooks |-> NoMeta]
    /\ disk' = [d \in Docs |-> NoFile]
    /\ meta_changed' = (meta_changed \/ MetaFiles # {})
    /\ UNCHANGED now
    /\ ServerIdle

CreateRoot ==
    /\ ~root.exists
    /\ root' = [exists |-> TRUE, mtime |-> now]
    /\ UNCHANGED <<now, meta, disk, meta_changed>>
    /\ ServerIdle

FileSystem ==
    \/ Tick
    \/ \E d \in Docs : \E body \in Bodies(d) : WriteFile(d, body)
    \/ \E d \in Docs : DeleteFile(d)
    \/ \E w \in Workbooks, state \in {"ok", "bad"} : WriteMeta(w, state)
    \/ \E w \in Workbooks : DeleteMeta(w)
    \/ RemoveRoot
    \/ CreateRoot

\* --------------------------------------------------- cache entry points
\* A corpus load on behalf of search_workbooks, search_workbooks_with_content
\* or grep_workbooks.
Load(workbook_ids) ==
    /\ running
    /\ \E l \in {GetAllWorkbookDocuments(_document_cache, _cache_timestamp,
                                           workbook_ids)} :
          /\ _document_cache' = l.cache
          /\ _cache_timestamp' = l.stamp
          /\ documents' = Loaded(l)
    /\ meta_changed' = (meta_changed /\ ~root.exists)
    /\ UNCHANGED <<request, running, line, loading, response>>
    /\ UNCHANGED fsVars

\* A clear_cache call.
Clear(workbook_id, file_path) ==
    /\ running
    /\ \E c \in {ClearCache(_document_cache, _cache_timestamp, workbook_id,
                              file_path)} :
          /\ _document_cache' = c.cache
          /\ _cache_timestamp' = c.stamp
    /\ documents' = NoLoad
    /\ UNCHANGED <<meta_changed, request, running, line, loading, response>>
    /\ UNCHANGED fsVars

CacheCalls ==
    \/ \E ws \in Scopes : Load(ws)
    \/ \E w \in Workbooks \cup {<<>>}, k \in Keys \cup {<<>>} : Clear(w, k)

Server ==
    \/ MalformedLine
    \/ NonObjectLine
    \/ PlainRequest
    \/ BadParamsRequest
    \/ UnknownToolRequest
    \/ ListFilesRequest
    \/ ReadFileRequest
    \/ SearchRequest
    \/ ClearCacheRequest
    \/ GrepRequest

\* ---------------------------------------------------------- specification
Init ==
    /\ now = 1
    /\ root = [exists |-> TRUE, mtime |-> 1]
    /\ meta = [w \in Workbooks |-> [state |-> "ok", mtime |-> 1]]
    /\ disk = [d \in Docs |-> [exists |-> TRUE, body |-> "alpha", mtime |-> 1]]
    /\ meta_changed = FALSE
    /\ _document_cache = EmptyCache
    /\ _cache_timestamp = NoStamp
    /\ documents = NoLoad
    /\ request = Unset
    /\ running = TRUE
    /\ line = NoLine
    /\ loading = NotLoading
    \* the initialization message printed before the loop carries id 1
    /\ response = Result("1")

\* The cache and the file system under it.
Next == FileSystem \/ CacheCalls

Spec == Init /\ [][Next]_vars

\* The same, over a file system whose clock moves with every write to a
\* document, so that a rewritten file always has a later mtime.
StrictWriteFile(d, body) ==
    /\ root.exists
    /\ now < MaxTime
    /\ now' = now + 1
    /\ disk' = [disk EXCEPT ![d] = [exists |-> TRUE, body |-> body, mtime |-> now + 1]]
    /\ UNCHANGED <<root, meta, meta_changed>>
    /\ ServerIdle

StrictFileSystem ==
    \/ Tick
    \/ \E d \in Docs : \E body \in Bodies(d) : StrictWriteFile(d, body)
    \/ \E d \in Docs : DeleteFile(d)
    \/ \E w \in Workbooks, state \in {"ok", "bad"} : WriteMeta(w, state)
    \/ \E w \in Workbooks : DeleteMeta(w)
    \/ RemoveRoot
    \/ CreateRoot

StrictNext == StrictFileSystem \/ CacheCalls

StrictSpec == Init /\ [][StrictNext]_vars

\* The read loop over a file system that stays as it is: each document is
\* there or not when the process starts.
LoopInit ==
    /\ now = 1
    /\ root = [exists |-> TRUE, mtime |-> 1]
    /\ meta = [w \in Workbooks |-> [state |-> "ok", mtime |-> 1]]
    /\ disk \in [Docs -> {NoFile, [exists |-> TRUE, body |-> "alpha", mtime |-> 1]}]
    /\ meta_changed = FALSE
    /\ _document_cache = EmptyCache
    /\ _cache_timestamp = NoStamp
    /\ documents = NoLoad
    /\ request = Unset
    /\ running = TRUE
    /\ line = NoLine
    /\ loading = NotLoading
    /\ response = Result("1")

LoopNext == Server

LoopSpec == LoopInit /\ [][LoopNext]_vars

\* ---------------------------------------------------------------- claims
\* The strings the extractors return in place of text when they fail.
Sentinels == {TxtPdfError, TxtUndecodable}

\* An extraction that succeeded with some text.
Usable(content) == content # <<>> /\ content \notin Sentinels

\* The contents a returned corpus holds for a document.
ContentsFor(list, d) ==
    {list[i].content : i \in {j \in 1..Len(list) : list[j].filepath = CacheKey(d)}}

KeyA == CacheKey(DocA)
KeyB == CacheKey(DocB)

RECURSIVE UncachedScan(_, _, _)
UncachedScan(i, acc, workbook_ids) ==
    IF i > Len(ScanOrder) THEN acc
    ELSE LET d == ScanOrder[i]
         IN UncachedScan(i + 1,
                         IF Scanned(d, workbook_ids) /\ Usable(ReadFile(d))
                         THEN Append(acc, Record(d, ReadFile(d)))
                         ELSE acc,
                         workbook_ids)

UncachedLoad(workbook_ids) ==
    IF root.exists THEN UncachedScan(1, <<>>, workbook_ids) ELSE <<>>

\* C2: cache transparency.  When every rewrite of a file gives it a later
\* mtime, each corpus load returns exactly what a loader without a cache
\* returns, whatever loads and clear_cache calls came before.
C2_CacheTransparent ==
    [][documents'.called => \A ws \in Scopes :
         Load(ws) => documents'.list = UncachedLoad(ws)]_vars

\* A load has served b.pdf from the cache and re-extracted the rewritten
\* a.txt, and returned both.
C2_Witness ==
    /\ documents.called
    /\ documents.hits = {DocB}
    /\ documents.stale = {DocA}
    /\ ContentsFor(documents.list, DocB) = {TxtAlpha}
    /\ Len(documents.list) = 2

\* C3: no single bad request line ends the process: a malformed line, a JSON
\* value that is not an object, or an object with wrong-typed params is
\* answered with a -32603 error and the loop goes on.
C3_BadLineSurvived ==
    [][(MalformedLine \/ NonObjectLine \/ BadParamsRequest) =>
         /\ running'
         /\ response'.kind = "error"
         /\ response'.code = InternalErrorCode]_vars

\* C4: every response carries the id of the line that produced it, null when
\* the line could not be parsed or has no id.
C4_ResponseEchoesLineId ==
    (running /\ line.json # "none") => response.id = line.id

\* C5: a line that is not valid JSON is answered with error code -32700.
C5_ParseErrorCode ==
    (running /\ line.json = "malformed") =>
        (response.kind = "error" /\ response.code = ParseErrorCode)

\* The rag_grep line with the given arguments.
GrepLine(id, p, re, mr, mm, ws) ==
    [BaseLine EXCEPT !.id = id, !.method = "tools/call", !.tool = "rag_grep",
                     !.pattern = p, !.regex = re, !.max_results = mr,
                     !.max_matches_per_file = mm, !.workbook_ids = ws]

\* C6: rag_grep with regex=true and a pattern re.compile rejects, or with a
\* pattern longer than 500 characters, is answered with an error response,
\* whatever the corpus holds and whatever max_results is.
C6_BadPatternRejected ==
    [][\A id \in LineIds, p \in Patterns, re \in BOOLEAN,
          mr \in MaxResultsInputs, mm \in MaxMatchesInputs, ws \in Scopes :
         (/\ (re /\ ~RegexValid(p)) \/ Len(p) > MAX_PATTERN_LEN
          /\ ReadLine(GrepLine(id, p, re, mr, mm, ws)))
         => response'.kind = "error"]_vars

\* The cache keys of the files inside a workbook's directory.
KeysInside(w) == {CacheKey(d) : d \in {x \in Docs : x.wb = w}}

\* C7: clear_cache(workbook_id = W) removes exactly the entries of the files
\* inside W's directory and leaves the other entries and the stamp as they
\* were.
C7_ClearWorkbookExact ==
    [][\A w \in Workbooks :
         Clear(w, <<>>) =>
           /\ DOMAIN _document_cache' = DOMAIN _document_cache \ KeysInside(w)
           /\ \A k \in DOMAIN _document_cache' :
                _document_cache'[k] = _document_cache[k]
           /\ _cache_timestamp' = _cache_timestamp]_vars

\* C8: no cache entry holds empty text or an error sentinel.
C8_OnlyUsableTextCached ==
    \A k \in DOMAIN _document_cache : Usable(_document_cache[k].content)

\* A load has served a.txt from the cache, has run over a b.pdf that pypdf
\* rejects, and has left no entry and returned no record for it.
C8_Witness ==
    /\ documents.called
    /\ documents.hits = {DocA}
    /\ Scanned(DocB, {})
    /\ disk[DocB].body = "binary"
    /\ KeyB \notin DOMAIN _document_cache
    /\ Len(documents.list) = 1

\* C9 as stated: after any corpus load the cache holds no entry for a file
\* that was absent when the load started.
C9_EveryLoadPrunes ==
    [][documents'.called =>
         \A k \in DOMAIN _document_cache' : KeyExists(k)]_vars

\* C9 amended: a corpus load that finds the workbooks directory prunes first,
\* so after it the cache holds no entry for a file that was absent when it
\* started; a load that finds no workbooks directory returns the empty corpus
\* and leaves the cache as it was.
C9_LoadPrunesUnderRoot ==
    [][documents'.called =>
         IF root.exists
         THEN \A k \in DOMAIN _document_cache' : KeyExists(k)
         ELSE /\ _document_cache' = _document_cache
              /\ documents'.list = <<>>]_vars

\* A load under an unchanged stamp has pruned the entry of the deleted a.txt
\* and kept the one of b.pdf.
C9_Witness ==
    /\ documents.called
    /\ root.exists
    /\ ~disk[DocA].exists
    /\ documents.pruned = {KeyA}
    /\ KeyB \in DOMAIN _document_cache
    /\ DOMAIN _document_cache = {KeyB}

\* The stamp the load computes has advanced past the recorded one, or none
\* is recorded.
StampAdvanced ==
    _cache_timestamp = NoStamp \/ ComputeCacheStamp > _cache_timestamp

\* C10: a load whose computed stamp has advanced (or that finds no recorded
\* stamp) empties the whole cache, whatever the scope, and records the new
\* stamp; any workbook metadata change since the previous load causes this;
\* when the stamp has not advanced the check removes nothing.
C10_CoarseInvalidation ==
    [][documents'.called => \A ws \in Scopes :
         (Load(ws) /\ root.exists) =>
           /\ meta_changed => StampAdvanced
           /\ StampAdvanced =>
                /\ _cache_timestamp' = ComputeCacheStamp
                /\ \A d \in Docs :
                     CacheKey(d) \in DOMAIN _document_cache' =>
                       /\ Scanned(d, ws)
                       /\ _document_cache'[CacheKey(d)] =
                            [content |-> ReadFile(d), mtime |-> disk[d].mtime]
           /\ ~StampAdvanced =>
                /\ _cache_timestamp' = _cache_timestamp
                /\ \A d \in Docs :
                     (/\ CacheKey(d) \in DOMAIN _document_cache
                      /\ disk[d].exists
                      /\ ~Scanned(d, ws))
                     => /\ CacheKey(d) \in DOMAIN _document_cache'
                        /\ _document_cache'[CacheKey(d)] =
                             _document_cache[CacheKey(d)]]_vars

\* ------------------------------------------- grep as a function of corpus
\* The texts of the two-file scenario of tests/test_grep.py, shortened, and a
\* text in which a pattern overlaps itself.
TxtFooDot ==
    <<"f", "o", "o", ".", "b", "a", "r", "\n",
      "F", "O", "O", ".", "B", "A", "R", "\n">>
TxtFooX ==
    <<"f", "o", "o", "b", "a", "r", " ",
      "f", "o", "o", "X", "b", "a", "r", "\n">>
TxtOoo == <<"o", "o", "o", "\n">>

PatFooDotBar == <<"f", "o", "o", ".", "b", "a", "r">>
PatUpperFoo == <<"F", "O", "O">>
PatOo == <<"o", "o">>
GrepPatterns == {PatFooDotBar, PatUpperFoo, PatOo, PatParen, PatEmpty, PatLong}

\* Records get_all_workbook_documents can return: w/a, w/b and w2/a.
RecA == Record([wb |-> WbA, path |-> <<"a">>], TxtFooDot)
RecB == Record([wb |-> WbA, path |-> <<"b">>], TxtFooX)
RecC == Record([wb |-> WbB, path |-> <<"a">>], TxtOoo)
GrepRecords == {RecA, RecB, RecC}

\* Every list of distinct records, in every order the directory enumeration
\* can produce.
Corpora ==
    {c \in UNION {[1..n -> GrepRecords] : n \in 0..Cardinality(GrepRecords)} :
       \A i, j \in 1..Len(c) : i # j => c[i] # c[j]}

GrepMaxResultsInputs == {0, 1, 2, 50}
GrepMaxMatchesInputs == {0, 1, 20}

\* The rag_grep calls: every combination of the arguments.
GrepLines ==
    {[GrepLine("1", p, re, mr, mm, {}) EXCEPT !.case_sensitive = cs] :
       p \in GrepPatterns, re \in BOOLEAN, cs \in BOOLEAN,
       mr \in GrepMaxResultsInputs, mm \in GrepMaxMatchesInputs}

\* The corpus the load returns and the call read from standard input.
GrepInit ==
    /\ Init!1 /\ Init!2 /\ Init!3 /\ Init!4 /\ Init!5 /\ Init!6 /\ Init!7
    /\ documents \in {[NoLoad EXCEPT !.called = TRUE, !.list = c] : c \in Corpora}
    /\ request = Unset
    /\ running = TRUE
    /\ line \in GrepLines
    /\ loading = NotLoading
    /\ response = NoResponse

\* grep_workbooks after its load, and the response handle_request builds.
GrepCall ==
    /\ response = NoResponse
    /\ \E g \in {GrepDocuments(documents.list, line.pattern, line.regex, line.case_sensitive, line.max_results, line.max_matches_per_file)} :
          response' = IF g.raised
                      THEN ErrorResponse(line.id, InternalErrorCode)
                      ELSE [Result(line.id) EXCEPT !.results = g.results,
                                                   !.truncated = g.truncated]
    /\ UNCHANGED <<now, root, meta, disk, meta_changed, _document_cache,
                   _cache_timestamp, documents, request, running, line,
                   loading>>

GrepNext == GrepCall

GrepSpec == GrepInit /\ [][GrepNext]_vars

\* A rag_grep call has been answered with a result.
GrepAnswered == line.tool = "rag_grep" /\ response.kind = "result"

\* The (workbook_id, path) pairs of a list of records or result entries.
KeysOf(list) ==
    {[workbook_id |-> list[i].workbook_id, path |-> list[i].path] :
       i \in 1..Len(list)}

\* The pattern, taken literally, occurs in the content at offset i (up to
\* letter case unless case_sensitive).
LiteralAt(content, pattern, case_sensitive, i) ==
    /\ i >= 0
    /\ i + Len(pattern) <= Len(content)
    /\ \A j \in 1..Len(pattern) :
         IF case_sensitive THEN content[i + j] = pattern[j]
         ELSE Lower(content[i + j]) = Lower(pattern[j])

\* The pattern, with each "." standing for any one character of a line,
\* occurs in the content at offset i.
WildcardAt(content, pattern, case_sensitive, i) ==
    /\ i >= 0
    /\ i + Len(pattern) <= Len(content)
    /\ \A j \in 1..Len(pattern) :
         IF pattern[j] = "." THEN content[i + j] # "\n"
         ELSE IF case_sensitive THEN content[i + j] = pattern[j]
         ELSE Lower(content[i + j]) = Lower(pattern[j])

\* The pattern occurs at offset i, in the mode the call asked for.
OccursAt(content, i) ==
    IF line.regex
    THEN WildcardAt(content, line.pattern, line.case_sensitive, i)
    ELSE LiteralAt(content, line.pattern, line.case_sensitive, i)

\* The records of the corpus in which the pattern of the call occurs.
MatchingRecords ==
    {r \in GrepRecords :
       /\ \E i \in 1..Len(documents.list) : documents.list[i] = r
       /\ \E i \in 0..Len(r.content) : OccursAt(r.content, i)}

\* C11: with regex=false the files reported are those whose text contains the
\* pattern as a literal substring ("." only matches "."); with regex=true
\* they are those in which the pattern occurs with each "." standing for any
\* single character of a line.  (No cut by max_results.)
C11_LiteralVersusRegex ==
    (/\ GrepAnswered
     /\ line.pattern # <<>>
     /\ line.max_results >= Len(documents.list))
    => KeysOf(response.results) = KeysOf(SortDocs(documents.list))
                                  \cap {[workbook_id |-> r.workbook_id,
                                         path |-> r.path] : r \in MatchingRecords}

\* The literal call of the two-file scenario has reported a.txt only, with
\* its two matches.
C11_Witness ==
    /\ GrepAnswered
    /\ line.pattern = PatFooDotBar /\ ~line.regex /\ ~line.case_sensitive
    /\ line.max_results = 50 /\ line.max_matches_per_file = 20
    /\ documents.list = <<RecB, RecA>>
    /\ Len(response.results) = 1
    /\ response.results[1].path = RecA.path
    /\ response.results[1].match_count = 2

\* The content of the record a result entry was built from.
ContentOf(entry) ==
    (CHOOSE r \in GrepRecords :
        r.workbook_id = entry.workbook_id /\ r.path = entry.path).content

\* max_matches_per_file as the loop uses it.
EffectiveMaxMatches ==
    IF line.max_matches_per_file <= 0 THEN 1 ELSE line.max_matches_per_file

\* C12: matching ignores letter case unless case_sensitive=true.  Every
\* reported match is an occurrence of the pattern (up to case by default,
\* exact when case_sensitive), and every such occurrence in a reported file
\* is counted: it lies inside a reported match unless the per-file cap was
\* reached.
C12_CaseInsensitiveUnlessAsked ==
    GrepAnswered =>
      \A k \in 1..Len(response.results) :
        LET e == response.results[k]
            content == ContentOf(e)
        IN /\ \A n \in 1..Len(e.matches) :
                /\ OccursAt(content, e.matches[n].start)
                /\ e.matches[n].end = e.matches[n].start + Len(line.pattern)
           /\ \A i \in 0..Len(content) :
                OccursAt(content, i) =>
                  \/ \E n \in 1..Len(e.matches) :
                        e.matches[n].start <= i /\ i < e.matches[n].end
                  \/ e.match_count = EffectiveMaxMatches

\* The case-sensitive call of the two-file scenario has counted the
\* lower-case foo.bar only.
C12_Witness ==
    /\ GrepAnswered
    /\ line.pattern = PatFooDotBar /\ ~line.regex /\ line.case_sensitive
    /\ line.max_results = 50 /\ line.max_matches_per_file = 20
    /\ documents.list = <<RecA, RecB>>
    /\ Len(response.results) = 1
    /\ response.results[1].path = RecA.path
    /\ response.results[1].match_count = 1
    /\ response.results[1].matches[1].start = 0

\* The matching records of the corpus that the result does not report.
LeftOut ==
    {r \in MatchingRecords :
       [workbook_id |-> r.workbook_id, path |-> r.path]
           \notin KeysOf(response.results)}

\* C13: truncated is true exactly when at least one corpus record that
\* contains a match was left out of results; when every matching record is
\* reported, truncated is false.
C13_TruncatedIffMatchLeftOut ==
    (GrepAnswered /\ line.pattern # <<>>)
    => (response.truncated <=> LeftOut # {})

\* C14: results never holds more than max_results entries, no entry stands
\* for a record without matches, every entry's match_count is the length of
\* its matches list, and 1 <= match_count <= max_matches_per_file, a
\* non-positive max_matches_per_file counting as 1.
C14_ResultShape ==
    GrepAnswered =>
      /\ Len(response.results) <= line.max_results
      /\ \A k \in 1..Len(response.results) :
           LET e == response.results[k]
           IN /\ e.matches # <<>>
              /\ e.match_count = Len(e.matches)
              /\ 1 <= e.match_count
              /\ e.match_count <= EffectiveMaxMatches

\* Three matching records, max_results 2 and max_matches_per_file 0: two
\* entries, each with the one match a cap of 1 allows, although a.txt holds
\* the pattern twice.
C14_Witness ==
    /\ GrepAnswered
    /\ line.pattern = PatOo /\ ~line.regex /\ ~line.case_sensitive
    /\ line.max_results = 2 /\ line.max_matches_per_file = 0
    /\ documents.list = <<RecC, RecB, RecA>>
    /\ Len(response.results) = 2
    /\ response.results[1].match_count = 1
    /\ response.results[2].match_count = 1

\* The corpora holding the same records as the loaded one, in any order.
Reorderings ==
    {c \in Corpora : KeysOf(c) = KeysOf(documents.list)}

\* C15: results are in ascending (workbook_id, path, filename) order, and
\* the whole answer (entries, their order, which files survive the
\* max_results cut, and truncated) is the same for every order in which
\* the file system enumerates the records.
C15_Deterministic ==
    GrepAnswered =>
      /\ \A k \in 1..(Len(response.results) - 1) :
           DocLess(response.results[k], response.results[k + 1])
      /\ \A c \in Reorderings :
           LET g == GrepDocuments(c, line.pattern, line.regex, line.case_sensitive, line.max_results, line.max_matches_per_file)
           IN ~g.raised /\ g.results = response.results
                        /\ g.truncated = response.truncated

\* Enumerated in descending order, three matching records cut to two: w/a
\* and w/b survive, in that order.
C15_Witness ==
    /\ GrepAnswered
    /\ line.pattern = PatOo /\ ~line.regex /\ ~line.case_sensitive
    /\ line.max_results = 2 /\ line.max_matches_per_file = 20
    /\ documents.list = <<RecC, RecB, RecA>>
    /\ Len(response.results) = 2
    /\ response.results[1].path = RecA.path
    /\ response.results[1].workbook_id = RecA.workbook_id
    /\ response.results[2].path = RecB.path
    /\ response.results[2].workbook_id = RecB.workbook_id
    /\ response.truncated

\* ----------------------------------------------------------------- ranker
\* \w, \s, \d and [a-z] on the characters used.
WordChars ==
    {"a", "b", "c", "d", "e", "f", "g", "h", "i", "j", "k", "l", "m", "n", "o",
     "p", "q", "r", "s", "t", "u", "v", "w", "x", "y", "z", "A", "B", "F",
     "O", "R", "X", "0", "1", "2", "3", "4", "5", "6", "7", "8", "9", "_"}
Digits == {"0", "1", "2", "3", "4", "5", "6", "7", "8", "9"}
LowerLetters ==
    {"a", "b", "c", "d", "e", "f", "g", "h", "i", "j", "k", "l", "m", "n", "o",
     "p", "q", "r", "s", "t", "u", "v", "w", "x", "y", "z"}
IsWordChar(c) == c \in WordChars
IsSpace(c) == c \in {" ", "\n"}

\* `needle in haystack`
Contains(haystack, needle) == Find(haystack, needle, 0) # -1

\* re.sub(r'[^\w\s]', ' ', query_lower)
QueryClean(query_lower) ==
    [i \in 1..Len(query_lower) |->
       IF IsWordChar(query_lower[i]) \/ IsSpace(query_lower[i])
       THEN query_lower[i] ELSE " "]

\* str.split(): the maximal runs of characters that are not white space.
RECURSIVE Split(_, _, _)
Split(s, word, words) ==
    IF s = <<>> THEN (IF word = <<>> THEN words ELSE Append(words, word))
    ELSE IF IsSpace(Head(s))
    THEN Split(Tail(s), <<>>, IF word = <<>> THEN words ELSE Append(words, word))
    ELSE Split(Tail(s), Append(word, Head(s)), words)

common_words ==
    {<<"w", "h", "o">>,
     <<"a", "r", "e">>,
     <<"t", "h", "e">>,
     <<"i", "n">>,
     <<"a">>,
     <<"a", "n">>,
     <<"a", "n", "d">>,
     <<"o", "r">>,
     <<"b", "u", "t">>,
     <<"i", "s">>,
     <<"w", "a", "s">>,
     <<"w", "e", "r", "e">>,
     <<"b", "e">>,
     <<"b", "e", "e", "n">>,
     <<"b", "e", "i", "n", "g">>,
     <<"h", "a", "v", "e">>,
     <<"h", "a", "s">>,
     <<"h", "a", "d">>,
     <<"d", "o">>,
     <<"d", "o", "e", "s">>,
     <<"d", "i", "d">>,
     <<"w", "i", "l", "l">>,
     <<"w", "o", "u", "l", "d">>,
     <<"s", "h", "o", "u", "l", "d">>,
     <<"c", "o", "u", "l", "d">>,
     <<"m", "a", "y">>,
     <<"m", "i", "g", "h", "t">>,
     <<"m", "u", "s", "t">>,
     <<"c", "a", "n">>,
     <<"t", "h", "i", "s">>,
     <<"t", "h", "a", "t">>,
     <<"t", "h", "e", "s", "e">>,
     <<"t", "h", "o", "s", "e">>,
     <<"w", "h", "a", "t">>,
     <<"w", "h", "e", "n">>,
     <<"w", "h", "e", "r", "e">>,
     <<"w", "h", "y">>,
     <<"h", "o", "w">>}

\* query_words: the tokens that are no common word and longer than 2.
QueryWords(query) ==
    LET KeepWord(w) == w \notin common_words /\ Len(w) > 2
    IN SelectSeq(Split(QueryClean(LowerStr(query)), <<>>, <<>>), KeepWord)

\* The stemmed form appended for a term: "cabins" -> "cabin".
Stemmed(term) ==
    IF Len(term) > 3 /\ term[Len(term)] = "s"
    THEN {SubSeq(term, 1, Len(term) - 1)} ELSE {}

\* key_terms = list(set(stemmed_terms)): the query words, or the whole query
\* when none is left, and their stems.
KeyTerms(query) ==
    LET words == QueryWords(query)
        terms == IF words # <<>> THEN {words[i] : i \in 1..Len(words)}
                 ELSE {LowerStr(query)}
    IN terms \cup UNION {Stemmed(t) : t \in terms}

\* \b at offset p of s: exactly one of the characters around it is a \w.
Boundary(s, p) ==
    (p >= 1 /\ p <= Len(s) /\ IsWordChar(s[p]))
      # (p + 1 <= Len(s) /\ IsWordChar(s[p + 1]))

\* re.search(r'\b' + re.escape(word) + r'\b', content_lower)
WordSearch(word, content_lower) ==
    \E i \in 0..(Len(content_lower) - Len(word)) :
        /\ SubSeq(content_lower, i + 1, i + Len(word)) = word
        /\ Boundary(content_lower, i)
        /\ Boundary(content_lower, i + Len(word))

\* -\d{4}-\d{2}-\d{2} at offset i of s.
DateAt(s, i) ==
    /\ i + 11 <= Len(s)
    /\ s[i + 1] = "-" /\ s[i + 6] = "-" /\ s[i + 9] = "-"
    /\ \A k \in {2, 3, 4, 5, 7, 8, 10, 11} : s[i + k] \in Digits

\* re.search(r'([a-z0-9_-]+-\d{4}-\d{2}-\d{2})', query_lower): group 1 of the
\* leftmost, longest match, <<>> when there is none.
DatePrefix(query_lower) ==
    LET NameChar(c) == c \in LowerLetters \cup Digits \cup {"_", "-"}
        spans == {sp \in (1..Len(query_lower)) \X (1..Len(query_lower)) :
                    /\ sp[1] <= sp[2]
                    /\ \A k \in sp[1]..sp[2] : NameChar(query_lower[k])
                    /\ DateAt(query_lower, sp[2])}
    IN IF spans = {} THEN <<>>
       ELSE LET first == CHOOSE sp \in spans :
                           \A other \in spans :
                              \/ sp[1] < other[1]
                              \/ sp[1] = other[1] /\ sp[2] >= other[2]
            IN SubSeq(query_lower, first[1], first[2] + 11)

\* filename.lower().endswith(".pdf")
EndsWithPdf(filename_lower) ==
    /\ Len(filename_lower) >= 4
    /\ SubSeq(filename_lower, Len(filename_lower) - 3, Len(filename_lower))
         = <<".", "p", "d", "f">>

\* The body of `for doc in documents` up to the floor: [included, score].
\* included is FALSE when the document is skipped for want of a key term.
ScoreDocument(doc, query) ==
    LET query_lower == LowerStr(query)
        key_terms == KeyTerms(query)
        content_lower == LowerStr(doc.content)
        filename_lower == LowerStr(doc.filename)
        in_content == \E term \in key_terms : Contains(content_lower, term)
        term_found == \E term \in key_terms :
                         \/ Contains(content_lower, term)
                         \/ Contains(filename_lower, term)
        date_prefix == DatePrefix(query_lower)
        by_prefix == /\ ~term_found
                     /\ date_prefix # <<>>
                     /\ StartsWith(filename_lower, date_prefix)
        has_key_term == term_found \/ by_prefix
        word_matches == Cardinality({t \in key_terms : WordSearch(t, content_lower)})
        filename_matches == Cardinality({t \in key_terms : Contains(filename_lower, t)})
        workbook_matches == Cardinality({t \in key_terms : Contains(LowerStr(doc.workbook_name), t)})
        base == (IF by_prefix THEN 10 ELSE 0)
                + (IF Contains(content_lower, query_lower) THEN 20
                   ELSE IF in_content THEN 15 ELSE 0)
                + word_matches * 5
                + filename_matches * 10
                + workbook_matches * 3
        score == IF EndsWithPdf(filename_lower) /\ base > 0 THEN base + 2 ELSE base
    IN [included |-> has_key_term, score |-> IF has_key_term THEN score ELSE 0]

\* matching_docs before the sort: (score, doc) for every document with a key
\* term and a score of at least 8, in corpus order.
RECURSIVE MatchingDocs(_, _)
MatchingDocs(documents_, query) ==
    IF documents_ = <<>> THEN <<>>
    ELSE CHOOSE out \in
           {(IF s.included /\ s.score >= 8
             THEN <<[score |-> s.score, doc |-> Head(documents_)]>> ELSE <<>>)
            \o MatchingDocs(Tail(documents_), query)
            : s \in {ScoreDocument(Head(documents_), query)}} : TRUE

\* matching_docs.sort(key=lambda x: x[0], reverse=True): stable, so equal
\* scores keep corpus order.
RECURSIVE InsertByScore(_, _)
InsertByScore(sorted, m) ==
    IF sorted = <<>> THEN <<m>>
    ELSE IF m.score > Head(sorted).score THEN <<m>> \o sorted
    ELSE <<Head(sorted)>> \o InsertByScore(Tail(sorted), m)

RECURSIVE SortByScore(_)
SortByScore(ms) ==
    IF ms = <<>> THEN <<>>
    ELSE InsertByScore(SortByScore(SubSeq(ms, 1, Len(ms) - 1)), ms[Len(ms)])

MAX_TOTAL_FILES == 2

\* Faulty variant: every matching document passes the threshold.
FilteredDocsNoThreshold(matching_docs) ==
    SubSeq(matching_docs, 1, IF Len(matching_docs) < MAX_TOTAL_FILES THEN Len(matching_docs) ELSE MAX_TOTAL_FILES)

\* filtered_docs: the sorted matches with score >= top_score * 0.9 (the top
\* one alone if none passes), cut to MAX_TOTAL_FILES.
FilteredDocs(matching_docs) ==
    LET top_score == matching_docs[1].score
        Passes(m) == 10 * m.score >= 9 * top_score
        passing == SelectSeq(matching_docs, Passes)
        kept == IF passing = <<>> THEN <<matching_docs[1]>> ELSE passing
    IN SubSeq(kept, 1, IF Len(kept) < MAX_TOTAL_FILES THEN Len(kept) ELSE MAX_TOTAL_FILES)

\* A piece of the text search_workbooks_with_content returns: the message
\* it opens with, or one document line or block of it.
Part(part, doc, score) ==
    [part |-> part, filename |-> doc.filename,
     workbook_name |-> doc.workbook_name, workbook_id |-> doc.workbook_id,
     path |-> doc.path, score |-> score]
NoDoc == [filename |-> <<>>, workbook_name |-> <<>>, workbook_id |-> <<>>, path |-> <<>>, content |-> <<>>]

\* Faulty variant: every document is listed.
AvailableAll(documents_) ==
    [i \in 1..Len(documents_) |-> Part("- available", documents_[i], 0)]

\* "- filename (workbook_name)" for documents[:20]
Available(documents_) ==
    [i \in 1..(IF Len(documents_) < 20 THEN Len(documents_) ELSE 20) |->
       Part("- available", documents_[i], 0)]

\* search_workbooks_with_content after its load.  `limit` is not read.
SearchWorkbooksWithContent(documents_, query, limit) ==
    IF documents_ = <<>>
    THEN <<Part("No workbook documents found.", NoDoc, 0)>>
    ELSE CHOOSE out \in
           {IF matching_docs = <<>>
            THEN <<Part("No matches found", NoDoc, 0)>> \o Available(documents_)
            ELSE LET filtered_docs == FilteredDocs(matching_docs)
                 IN [i \in 1..Len(filtered_docs) |->
                       Part("Relevance Score:", filtered_docs[i].doc,
                            filtered_docs[i].score)]
            : matching_docs \in {SortByScore(MatchingDocs(documents_, query))}}
           : TRUE

\* --------------------------------------- ranker as a function of corpus
\* Records with a filename and a workbook name, as the ranker reads them.
RankRecord(workbook_id, workbook_name, filename, content) ==
    [workbook_id |-> workbook_id, workbook_name |-> workbook_name,
     filename |-> filename, path |-> filename, content |-> content]

\* The query words in the body; in the file name only (twice); in the body
\* in another spelling, in a workbook named after one; a date-prefixed name.
DocBody == RankRecord(WbA, <<"w">>, <<"a", ".", "t", "x", "t">>, <<"f", "o", "o", " ", "b", "a", "r", "s", " ", "o", "k">>)
DocName == RankRecord(WbA, <<"w">>, <<"f", "o", "o", "-", "b", "a", "r", "s", ".", "p", "d", "f">>, <<"x", "y", "z">>)
DocNameTwo == RankRecord(WbA, <<"w">>, <<"b", "a", "r", "s", "-", "f", "o", "o", ".", "p", "d", "f">>, <<"x", "y", "z">>)
DocTwin == RankRecord(WbB, <<"b", "a", "r", "s">>, <<"c", ".", "t", "x", "t">>, <<"t", "h", "e", " ", "B", "a", "r", "s", ",", " ", "b", "a", "r", "s">>)
DocDate == RankRecord(WbA, <<"w">>, <<"x", "-", "2", "0", "2", "5", "-", "1", "2", "-", "1", "2", ".", "m", "d">>, <<"q", "q">>)
RankRecords == {DocBody, DocName, DocNameTwo, DocTwin, DocDate}

\* A corpus of more than 20 documents, none of which holds a query term.
LongCorpus ==
    [i \in 1..21 |->
       RankRecord(WbA, <<"w">>, [j \in 1..i |-> "n"] \o <<".", "t", "x", "t">>,
                  <<"q", "q">>)]

RankCorpora ==
    {c \in UNION {[1..n -> RankRecords] : n \in 0..Cardinality(RankRecords)} :
       \A i, j \in 1..Len(c) : i # j => c[i] # c[j]}
    \cup {LongCorpus}

QBars == <<"b", "a", "r", "s">>
QBarsMark == <<"B", "a", "r", "s", "?">>
QOkBars == <<"o", "k", " ", "b", "a", "r", "s">>
QNowhere == <<"z", "z", "z">>
QThe == <<"t", "h", "e">>
QFoo == <<"f", "o", "o">>
QFooBars == <<"f", "o", "o", " ", "b", "a", "r", "s">>
QDate == <<"x", "-", "2", "0", "2", "5", "-", "1", "2", "-", "1", "2">>
QEmpty == <<>>
Queries ==
    {QBars, QBarsMark, QOkBars, QNowhere, QThe, QFoo, QFooBars, QDate, QEmpty}

LimitInputs == {1, 2, 5}

\* The rag_search_content calls.
RankLines ==
    {[query |-> qu, limit |-> n]
       @@ [BaseLine EXCEPT !.id = "1", !.method = "tools/call",
                           !.tool = "rag_search_content"] :
       qu \in Queries, n \in LimitInputs}

\* The corpus the load returns and the call read from standard input.
RankInit ==
    /\ Init!1 /\ Init!2 /\ Init!3 /\ Init!4 /\ Init!5 /\ Init!6 /\ Init!7
    /\ documents \in {[NoLoad EXCEPT !.called = TRUE, !.list = c] : c \in RankCorpora}
    /\ request = Unset
    /\ running = TRUE
    /\ line \in RankLines
    /\ loading = NotLoading
    /\ response = NoResponse

\* search_workbooks_with_content after its load, and the response
\* handle_request builds: {'content': results}.
SearchCall ==
    /\ response = NoResponse
    /\ response' = [Result(line.id) EXCEPT
                      !.text = SearchWorkbooksWithContent(documents.list, line.query, line.limit)]
    /\ UNCHANGED <<now, root, meta, disk, meta_changed, _document_cache,
                   _cache_timestamp, documents, request, running, line,
                   loading>>

RankNext == SearchCall

RankSpec == RankInit /\ [][RankNext]_vars

\* A rag_search_content call has been answered.
RankAnswered == line.tool = "rag_search_content" /\ response.kind = "result"

\* The document blocks of the answer.
Blocks == SelectSeq(response.text, LAMBDA p : p.part = "Relevance Score:")

\* The documents of the corpus, and the scores of those with a key term.
CorpusDocs == {documents.list[i] : i \in 1..Len(documents.list)}
DocScores == [d \in CorpusDocs |-> ScoreDocument(d, line.query)]
Scores ==
    LET ds == DocScores
    IN {ds[d].score : d \in {e \in CorpusDocs : ds[e].included}}
TopScore == LET ss == Scores IN CHOOSE s \in ss : \A t \in ss : s >= t

\* Index of the block of document d in the answer, 0 when it has none.
BlockOf(d) ==
    LET at == {k \in 1..Len(Blocks) :
                 /\ Blocks[k].workbook_id = d.workbook_id
                 /\ Blocks[k].path = d.path}
    IN IF at = {} THEN 0 ELSE CHOOSE k \in at : TRUE

\* Some key term of the query is part of the text s.
TermIn(s) == \E t \in KeyTerms(line.query) : Contains(LowerStr(s), t)

\* The content of d holds the query as a phrase.
HasPhrase(d) == Contains(LowerStr(d.content), LowerStr(line.query))

\* d matches the query through its file name and through nothing else.
FilenameOnly(d) ==
    TermIn(d.filename) /\ ~TermIn(d.content) /\ ~TermIn(d.workbook_name)

\* C16: of two documents, one holding the exact query phrase in its content
\* and one matching through its file name only, the first has the strictly
\* higher score and, if the second is returned, is returned before it.
C16_ExactPhraseFirst ==
    RankAnswered =>
      LET ds == DocScores
      IN \A a, b \in CorpusDocs :
           (HasPhrase(a) /\ FilenameOnly(b)) =>
             /\ ds[a].score > ds[b].score
             /\ BlockOf(b) # 0 => (BlockOf(a) # 0 /\ BlockOf(a) < BlockOf(b))

\* No key term of the query is part of any content or file name.
NoTermAnywhere ==
    \A d \in CorpusDocs : ~TermIn(d.content) /\ ~TermIn(d.filename)

\* The answer is the no-match message followed by the file names of the
\* first 20 documents at most, in corpus order.
NoMatchMessage ==
    /\ response.text # <<>>
    /\ response.text[1].part = "No matches found"
    /\ Len(response.text) - 1 <= 20
    /\ Len(response.text) - 1 <= Len(documents.list)
    /\ Len(response.text) - 1 = 20 \/ Len(response.text) - 1 = Len(documents.list)
    /\ \A i \in 1..(Len(response.text) - 1) :
         /\ response.text[i + 1].part = "- available"
         /\ response.text[i + 1].filename = documents.list[i].filename

\* C17 as stated: a query whose terms appear in no document is answered
\* with the "No matches found" message and the list of file names.
C17_NoMatchMessage ==
    (RankAnswered /\ NoTermAnywhere) => NoMatchMessage

\* C17: a query whose terms appear in no document of a corpus that is not
\* empty is answered with the "No matches found" message and the file names
\* of the first 20 documents at most; over an empty corpus the answer is
\* "No workbook documents found." instead.
C17_NoMatchMessageUnlessEmptyCorpus ==
    (RankAnswered /\ NoTermAnywhere) =>
      IF documents.list = <<>>
      THEN /\ Len(response.text) = 1
           /\ response.text[1].part = "No workbook documents found."
      ELSE NoMatchMessage

\* The query found nowhere, over the corpus of 21 documents: the message
\* and 20 file names.
C17_Witness ==
    /\ RankAnswered
    /\ line.query = QNowhere
    /\ documents.list = LongCorpus
    /\ Len(response.text) = 21
    /\ response.text[1].part = "No matches found"
    /\ response.text[21].part = "- available"

\* The documents with a key term of the query in their body.
BodyDocs == {d \in CorpusDocs : TermIn(d.content)}

\* C18: when some document holds a key term in its body the answer consists
\* of document blocks, the top-scoring document among them (the floor of 8
\* does not remove it), and never is the no-match message; when exactly one
\* document holds the term in its body, that document has a block.
C18_BodyMatchReturned ==
    (RankAnswered /\ BodyDocs # {}) =>
      /\ response.text # <<>>
      /\ Blocks = response.text
      /\ LET top == TopScore IN top >= 8 /\ Blocks[1].score = top
      /\ \A d \in BodyDocs : BodyDocs = {d} => BlockOf(d) # 0

C20_LimitHonoured ==
    (RankAnswered /\ line.limit >= 1) => Len(Blocks) <= line.limit

\* ---------------------------------------------------------------- chunker
Min(a, b) == IF a <= b THEN a ELSE b
Abs(a) == IF a < 0 THEN 0 - a ELSE a

\* A slice bound as str.find and str.rfind read it: a negative bound counts
\* from the end, and both are clamped to 0..n.
SliceIndex(i, n) == IF i < 0 THEN Max(i + n, 0) ELSE Min(i, n)

\* content.rfind(' ', lo, hi) and content.find(' ', lo, hi)
Spaces(content, lo, hi) ==
    {j \in SliceIndex(lo, Len(content))..(SliceIndex(hi, Len(content)) - 1) :
       content[j + 1] = " "}
RFindSpace(content, lo, hi) ==
    LET at == Spaces(content, lo, hi)
    IN IF at = {} THEN -1 ELSE CHOOSE j \in at : \A k \in at : j >= k
FindSpace(content, lo, hi) ==
    LET at == Spaces(content, lo, hi)
    IN IF at = {} THEN -1 ELSE CHOOSE j \in at : \A k \in at : j <= k

\* str.strip()
RECURSIVE Strip(_)
Strip(s) ==
    IF s = <<>> THEN s
    ELSE IF IsSpace(Head(s)) THEN Strip(Tail(s))
    ELSE IF IsSpace(s[Len(s)]) THEN Strip(SubSeq(s, 1, Len(s) - 1))
    ELSE s

\* The match starts of re.finditer(r'\b' + re.escape(term) + r'\b',
\* content_lower), from offset i on.
RECURSIVE WordFinditer(_, _, _, _)
WordFinditer(content_lower, term, i, found) ==
    LET at == {j \in i..(Len(content_lower) - Len(term)) :
                 /\ SubSeq(content_lower, j + 1, j + Len(term)) = term
                 /\ Boundary(content_lower, j)
                 /\ Boundary(content_lower, j + Len(term))}
    IN IF at = {} THEN found
       ELSE CHOOSE out \in
              {WordFinditer(content_lower, term, j + Len(term), Append(found, j))
               : j \in {CHOOSE k \in at : \A l \in at : k <= l}} : TRUE

Ellipsis == <<".", ".", ".">>

\* The chunk carved around position pos: the returned (pos, text) and the
\* range [start, end) of the content the text was cut from.
ChunkAt(content, pos, chunk_size) ==
    LET half == chunk_size \div 2
        start0 == Max(0, pos - half)
        end0 == Min(Len(content), pos + half)
        space_before == RFindSpace(content, start0 - 100, start0)
        space_after == FindSpace(content, end0, end0 + 100)
        start == IF start0 > 0 /\ space_before > 0 THEN space_before + 1 ELSE start0
        end == IF end0 < Len(content) /\ space_after > 0 THEN space_after ELSE end0
    IN [pos |-> pos,
        text |-> (IF start > 0 THEN Ellipsis ELSE <<>>)
                 \o Strip(SubSeq(content, start + 1, end))
                 \o (IF end < Len(content) THEN Ellipsis ELSE <<>>),
        start |-> start, end |-> end]

\* Faulty variant: a position is covered only by a chunk at the same place.
CoveredSamePlace(chunks, pos, chunk_size) ==
    \E k \in 1..Len(chunks) : chunks[k].pos = pos

\* any(abs(pos - covered) < chunk_size // 2 for covered in positions_covered)
Covered(chunks, pos, chunk_size) ==
    \E k \in 1..Len(chunks) : Abs(pos - chunks[k].pos) < chunk_size \div 2

\* `for match in re.finditer(...)`: the chunks after the matches of one term.
RECURSIVE MatchLoop(_, _, _, _, _)
MatchLoop(content, positions, chunks, chunk_size, max_chunks) ==
    IF positions = <<>> THEN chunks
    ELSE IF Covered(chunks, Head(positions), chunk_size)
    THEN MatchLoop(content, Tail(positions), chunks, chunk_size, max_chunks)
    ELSE CHOOSE out \in
           {IF Len(c) >= max_chunks THEN c
            ELSE MatchLoop(content, Tail(positions), c, chunk_size, max_chunks)
            : c \in {Append(chunks, ChunkAt(content, Head(positions), chunk_size))}}
           : TRUE

\* `for term in key_terms`
RECURSIVE TermLoop(_, _, _, _, _)
TermLoop(content, key_terms, chunks, chunk_size, max_chunks) ==
    IF key_terms = <<>> THEN chunks
    ELSE IF Len(Head(key_terms)) < 3
    THEN TermLoop(content, Tail(key_terms), chunks, chunk_size, max_chunks)
    ELSE CHOOSE out \in
           {IF Len(c) >= max_chunks THEN c
            ELSE TermLoop(content, Tail(key_terms), c, chunk_size, max_chunks)
            : c \in {MatchLoop(content,
                               WordFinditer(LowerStr(content), Head(key_terms), 0, <<>>),
                               chunks, chunk_size, max_chunks)}} : TRUE

\* chunks.sort(key=lambda x: x[0])  (stable)
RECURSIVE InsertByPos(_, _)
InsertByPos(sorted, c) ==
    IF sorted = <<>> THEN <<c>>
    ELSE IF c.pos < Head(sorted).pos THEN <<c>> \o sorted
    ELSE <<Head(sorted)>> \o InsertByPos(Tail(sorted), c)

RECURSIVE SortByPos(_)
SortByPos(cs) ==
    IF cs = <<>> THEN <<>>
    ELSE InsertByPos(SortByPos(SubSeq(cs, 1, Len(cs) - 1)), cs[Len(cs)])

\* extract_context_chunks
ExtractContextChunks(content, key_terms, chunk_size, max_chunks) ==
    SortByPos(TermLoop(content, key_terms, <<>>, chunk_size, max_chunks))

\* --------------------------------- chunker as a function of its arguments
\* Contents: two whole-word "bar"s among other words; "bar" inside a word;
\* "Bar" capitalised; a content longer than the 100-character search window.
TxtBars == <<"f", "o", "o", " ", "b", "a", "r", " ", "o", "x", " ", "b", "a", "r", " ", "f", "o", "r">>
TxtRebarb == <<"r", "e", "b", "a", "r", "b">>
TxtBarUpper == <<"B", "a", "r">>
TxtLong == [i \in 1..120 |-> <<"b", "a", "r", " ">>[((i - 1) % 4) + 1]]
ChunkContents == {TxtBars, TxtRebarb, TxtBarUpper, TxtLong}

TermBar == <<"b", "a", "r">>
TermBarUpper == <<"B", "a", "r">>
TermOx == <<"o", "x">>
TermFor == <<"f", "o", "r">>
TermBarOx == <<"b", "a", "r", " ", "o", "x">>
TermNowhere == <<"x", "x", "x">>
KeyTermLists ==
    {<<TermBar>>, <<TermBarUpper>>, <<TermOx>>, <<TermBar, TermFor>>,
     <<TermFor, TermBar>>, <<TermBar, TermBarOx>>, <<TermNowhere>>, <<>>}

ChunkSizeInputs == {0, 1, 4, 8, 9, 1000}
MaxChunksInputs == {0, 1, 2, 5}

\* The extract_context_chunks calls.
ChunkLines ==
    {[content |-> c, key_terms |-> kt, chunk_size |-> cs, max_chunks |-> mc]
       @@ [BaseLine EXCEPT !.id = "1", !.tool = "extract_context_chunks"] :
       c \in ChunkContents, kt \in KeyTermLists,
       cs \in ChunkSizeInputs, mc \in MaxChunksInputs}

ChunkInit ==
    /\ Init!1 /\ Init!2 /\ Init!3 /\ Init!4 /\ Init!5 /\ Init!6 /\ Init!7
    /\ documents = NoLoad
    /\ request = Unset
    /\ running = TRUE
    /\ line \in ChunkLines
    /\ loading = NotLoading
    /\ response = NoResponse

\* One call of extract_context_chunks; the list it returns.
ChunkCall ==
    /\ response = NoResponse
    /\ response' = [Result(line.id) EXCEPT
                      !.results = ExtractContextChunks(line.content, line.key_terms, line.chunk_size, line.max_chunks)]
    /\ UNCHANGED <<now, root, meta, disk, meta_changed, _document_cache,
                   _cache_timestamp, documents, request, running, line,
                   loading>>

ChunkNext == ChunkCall

ChunkSpec == ChunkInit /\ [][ChunkNext]_vars

\* An extract_context_chunks call has returned.
ChunkReturned == line.tool = "extract_context_chunks" /\ response.kind = "result"

\* The content holds one of the supplied keywords, whatever the letter case.
HoldsKeyword(text) ==
    \E k \in 1..Len(line.key_terms) :
        Contains(LowerStr(text), LowerStr(line.key_terms[k]))

\* C21: when the content holds one of the keywords (case-insensitively) at
\* least one returned chunk holds a keyword in its text; when it holds none
\* the returned list is empty.
C21_ChunkHoldsKeyword ==
    ChunkReturned =>
      IF HoldsKeyword(line.content)
      THEN \E i \in 1..Len(response.results) : HoldsKeyword(response.results[i].text)
      ELSE response.results = <<>>

\* C22 as stated: two distinct returned chunks have positions at least
\* chunk_size / 2 apart, for odd chunk sizes too.
C22_PositionsHalfChunkApart ==
    ChunkReturned =>
      \A i, j \in 1..Len(response.results) :
        i # j => 2 * Abs(response.results[i].pos - response.results[j].pos)
                   >= line.chunk_size

\* C22: two distinct returned chunks have positions at least
\* chunk_size // 2 (the half rounded down) apart.
C22_PositionsFloorHalfChunkApart ==
    ChunkReturned =>
      \A i, j \in 1..Len(response.results) :
        i # j => Abs(response.results[i].pos - response.results[j].pos)
                   >= line.chunk_size \div 2

\* chunk_size 9 over the long content: neighbouring "bar"s, 4 apart, are
\* both returned.
C22_Witness ==
    /\ ChunkReturned
    /\ line.content = TxtLong /\ line.key_terms = <<TermBar>>
    /\ line.chunk_size = 9 /\ line.max_chunks = 5
    /\ Len(response.results) = 5
    /\ response.results[1].pos = 0
    /\ response.results[2].pos = 4

\* C23: the returned list never holds more than max_chunks chunks.
C23_AtMostMaxChunks ==
    ChunkReturned => Len(response.results) <= line.max_chunks

\* C28: the content ranges [start, end) of two distinct returned chunks are
\* disjoint.
C28_ChunkRangesDisjoint ==
    ChunkReturned =>
      \A i, j \in 1..Len(response.results) :
        i # j => ~(Max(response.results[i].start, response.results[j].start)
                     < Min(response.results[i].end, response.results[j].end))

\* ----------------- loads over every kind of workbook.json and of file body
\* The contents a workbook.json can have: an object with its documents
\* ("ok"), text json.load rejects ("bad"), JSON that is not an object ("other").
MetaStates == {"ok", "bad", "other"}

\* The file bodies, with the well-formed file whose text starts with "Error".
MetaBodies(d) == Bodies(d) \cup {"errlog"}

MetaNext ==
    \/ \E d \in Docs : \E body \in MetaBodies(d) : WriteFile(d, body)
    \/ \E w \in Workbooks, state \in MetaStates : WriteMeta(w, state)
    \/ \E w \in Workbooks : DeleteMeta(w)
    \/ \E ws \in Scopes : Load(ws)

MetaSpec == Init /\ [][MetaNext]_vars

\* A workbook.json that is there and is not the object the loader expects.
Malformed(w) == meta[w].state \in {"bad", "other"}

\* C24: a load that meets a workbook with a malformed workbook.json does not
\* fail, returns no record of that workbook, and returns a record for every
\* document of every other workbook it scans whose text it keeps.
C24_MalformedWorkbookSkipped ==
    [][\A ws \in Scopes : \A w \in Workbooks :
         (Load(ws) /\ InScope(w, ws) /\ Malformed(w)) =>
           /\ ~documents'.raised
           /\ \A i \in 1..Len(documents'.list) : documents'.list[i].workbook_id # w
           /\ \A d \in Docs :
                (d.wb # w /\ Scanned(d, ws) /\ Cacheable(ReadFile(d)))
                  => ContentsFor(documents'.list, d) # {}]_vars

\* The part of C24 that holds: a workbook.json that json.load rejects.
C24_UnparsableWorkbookSkipped ==
    [][\A ws \in Scopes : \A w \in Workbooks :
         (Load(ws) /\ InScope(w, ws) /\ meta[w].state = "bad"
          /\ \A x \in Workbooks : meta[x].state # "other") =>
           /\ ~documents'.raised
           /\ \A i \in 1..Len(documents'.list) : documents'.list[i].workbook_id # w
           /\ \A d \in Docs :
                (d.wb # w /\ Scanned(d, ws) /\ Cacheable(ReadFile(d)))
                  => ContentsFor(documents'.list, d) # {}]_vars

\* A load has skipped the unparsable workbook "w2" and returned a.txt of "w".
C24_UnparsableWitness ==
    /\ documents.called
    /\ ~documents.raised
    /\ meta[WbB].state = "bad"
    /\ disk[DocB].exists
    /\ ContentsFor(documents.list, DocA) = {TxtAlpha}
    /\ Len(documents.list) = 1

\* The rag_clear_cache line with the given arguments.
ClearLine(id, w, k) ==
    [BaseLine EXCEPT !.id = id, !.method = "tools/call",
                     !.tool = "rag_clear_cache", !.workbook_id = w, !.file_path = k]

\* The extraction of a document's file ended in an exception (the except
\* branch of extract_text_from_pdf; no byte string fails every text decoding).
ExtractionFailed(d) == d.ext = "pdf" /\ disk[d].body = "binary"

\* C26: a load that completes returns a record for every document it scans
\* whose file exists and whose extraction succeeds with a non-empty text,
\* whatever that text is.
C26_RecordForEveryExtractedText ==
    [][\A ws \in Scopes :
         (Load(ws) /\ ~documents'.raised) =>
            \A d \in Docs :
              (Scanned(d, ws) /\ ~ExtractionFailed(d) /\ ReadFile(d) # <<>>)
                => ContentsFor(documents'.list, d) # {}]_vars

\* The part of C26 that holds: texts that do not start with "Error".
C26_RecordUnlessErrorPrefix ==
    [][\A ws \in Scopes :
         (Load(ws) /\ ~documents'.raised) =>
            \A d \in Docs :
              (Scanned(d, ws) /\ ~ExtractionFailed(d) /\ ReadFile(d) # <<>>
               /\ ~StartsWithError(ReadFile(d)))
                => ContentsFor(documents'.list, d) # {}]_vars

\* C27: for every match rag_grep reports, line is 1 plus the number of
\* newline characters before the match's start offset, and col is the start
\* offset minus the offset of the first character of that line, plus 1.
C27_LineColOfStart ==
    GrepAnswered =>
      \A k \in 1..Len(response.results) :
        LET e == response.results[k]
            content == ContentOf(e)
        IN \A n \in 1..Len(e.matches) :
             LET start == e.matches[n].start
                 \* the newlines at 0-based offsets below start
                 before == {i \in 1..Min(start, Len(content)) : content[i] = "\n"}
                 \* the offset following the last of them
                 first == IF before = {} THEN 0
                          ELSE CHOOSE i \in before : \A x \in before : x <= i
             IN /\ e.matches[n].line = 1 + Cardinality(before)
                /\ e.matches[n].col = start - first + 1

\* A match in the middle of the second line: "OO" of "FOO.BAR" at offset 9.
C27_Witness ==
    /\ GrepAnswered
    /\ \E k \in 1..Len(response.results) :
         \E n \in 1..Len(response.results[k].matches) :
           /\ response.results[k].matches[n].start = 9
           /\ response.results[k].matches[n].line = 2
           /\ response.results[k].matches[n].col = 2

\* ------------------------------- requests over a file system that changes
\* The request lines, all with id 1: the three methods without arguments,
\* listings, reads, searches, clears, and a rag_grep that returns before the
\* load (max_results 0) or loads.
PlainLines ==
    {[BaseLine EXCEPT !.id = "1", !.method = m] :
       m \in {"initialize", "tools/list", "rag/health"}}
ListFilesLines ==
    {[BaseLine EXCEPT !.id = "1", !.method = m, !.tool = "rag_list_files",
                      !.workbook_ids = ws] :
       ws \in Scopes, m \in {"tools/call", "rag/list_files"}}
ReadFileLines ==
    {[BaseLine EXCEPT !.id = "1", !.method = m, !.tool = "rag_read_file",
                      !.workbook_id = d.wb, !.file_path = d.path] :
       d \in Docs, m \in {"tools/call", "rag/read_file"}}
SearchLines ==
    {[BaseLine EXCEPT !.id = "1", !.method = m, !.tool = "rag_search_content",
                      !.workbook_ids = ws] :
       ws \in Scopes, m \in {"tools/call", "rag/search", "rag/search_content"}}
ClearCacheLines ==
    {ClearLine("1", w, k) : w \in Workbooks \cup {<<>>}, k \in Keys \cup {<<>>}}
GrepLoadLines ==
    {GrepLine("1", PatAlpha, FALSE, mr, 20, ws) : mr \in {0, 50}, ws \in Scopes}

\* The requests that are not supposed to touch the cache, and the others.
ReadOnlyLines == PlainLines \cup ListFilesLines \cup ReadFileLines
CacheLines == SearchLines \cup ClearCacheLines \cup GrepLoadLines

FrameRequest == \E l \in ReadOnlyLines \cup CacheLines : ReadLine(l)

\* Files are written (within one mtime tick) and deleted between requests.
FrameNext ==
    \/ \E d \in Docs : \E body \in Bodies(d) : WriteFile(d, body)
    \/ \E d \in Docs : DeleteFile(d)
    \/ FrameRequest

FrameSpec == Init /\ [][FrameNext]_vars

\* C30: initialize, tools/list, rag/health, rag_list_files and rag_read_file
\* leave the content cache and the stamp as they were and load no corpus; a
\* rag_read_file answer is the text extracted from the file as it is on disk,
\* whatever the cache holds; the cache or the stamp changes only in a search,
\* a grep or a rag_clear_cache request.
C30_CacheFrame ==
    [][/\ \A l \in ReadOnlyLines :
            ReadLine(l) =>
              /\ UNCHANGED <<_document_cache, _cache_timestamp>>
              /\ ~documents'.called
              /\ l \in ReadFileLines =>
                   \A d \in Docs :
                     (d.wb = l.workbook_id /\ d.path = l.file_path) =>
                       response'.text = IF disk[d].exists THEN ReadFile(d)
                                        ELSE TxtNotFound
       /\ (\/ _document_cache' # _document_cache
           \/ _cache_timestamp' # _cache_timestamp) =>
            \E l \in CacheLines : ReadLine(l)]_vars

\* rag_read_file has answered with the text now on disk while the cache still
\* holds the text a.txt had before it was rewritten within the same tick.
C30_Witness ==
    /\ response.kind = "result"
    /\ response.text = TxtLatin1
    /\ disk[DocA].body = "binary"
    /\ KeyA \in DOMAIN _document_cache
    /\ _document_cache[KeyA].content = TxtAlpha
    /\ _document_cache[KeyA].mtime = disk[DocA].mtime

\* C25: rag_clear_cache only removes entries, reports as `cleared` the number
\* of entries it removed, reports scope "file" when file_path is given (a
\* non-empty string), whether or not workbook_id is given too, else "workbook"
\* when workbook_id is given, else "all"; a scope-"all" clear leaves the cache
\* empty and the stamp unset.
C25_ClearReportsRemoved ==
    [][\A l \in ClearCacheLines :
         ReadLine(l) =>
           /\ response'.kind = "result"
           /\ DOMAIN _document_cache' \subseteq DOMAIN _document_cache
           /\ \A x \in DOMAIN _document_cache' :
                _document_cache'[x] = _document_cache[x]
           /\ response'.cleared =
                Cardinality(DOMAIN _document_cache \ DOMAIN _document_cache')
           /\ response'.scope = IF l.file_path # <<>> THEN "file"
                                ELSE IF l.workbook_id # <<>> THEN "workbook"
                                ELSE "all"
           /\ response'.scope = "all" =>
                (_document_cache' = EmptyCache /\ _cache_timestamp' = NoStamp)]_vars

\* A scope-"all" clear has removed both cached entries.
C25_Witness ==
    /\ response.kind = "result"
    /\ response.scope = "all"
    /\ response.cleared = 2
    /\ _document_cache = EmptyCache
    /\ _cache_timestamp = NoStamp

\* ------------------------------ a load interleaved with the file system
\* get_all_workbook_documents up to its workbook loop: the prune and the
\* stamp check.
BeginLoad(workbook_ids) ==
    /\ running
    /\ loading.pc = "idle"
    /\ root.exists
    /\ LET pruned == PruneDocumentCache(_document_cache)
           valid == StampValid(_cache_timestamp, ComputeCacheStamp)
       IN /\ _document_cache' = IF valid THEN pruned ELSE EmptyCache
          /\ _cache_timestamp' = IF valid THEN _cache_timestamp
                                 ELSE ComputeCacheStamp
    /\ loading' = [NotLoading EXCEPT !.pc = "stat", !.i = 1,
                                     !.workbook_ids = workbook_ids]
    /\ documents' = NoLoad
    /\ meta_changed' = (meta_changed /\ ~root.exists)
    /\ UNCHANGED <<request, running, line, response>>
    /\ UNCHANGED fsVars

\* file_path.exists(), file_path.stat().st_mtime and the cache look-up for
\* the next document: a hit appends the cached text, a stale entry is popped.
StatDocument ==
    /\ loading.pc = "stat"
    /\ loading.i <= Len(ScanOrder)
    /\ LET d == ScanOrder[loading.i]
           k == CacheKey(d)
       IN IF ~Scanned(d, loading.workbook_ids)
          THEN /\ loading' = [loading EXCEPT !.i = @ + 1]
               /\ UNCHANGED _document_cache
          ELSE IF CacheHit(_document_cache, d)
          THEN /\ loading' =
                    [loading EXCEPT !.i = @ + 1,
                       !.documents =
                          IF Cacheable(_document_cache[k].content)
                          THEN Append(@, Record(d, _document_cache[k].content))
                          ELSE @]
               /\ UNCHANGED _document_cache
          ELSE /\ loading' = [loading EXCEPT !.pc = "extract",
                                             !.file_mtime = disk[d].mtime]
               /\ _document_cache' =
                    [x \in DOMAIN _document_cache \ {k} |-> _document_cache[x]]
    /\ documents' = NoLoad
    /\ UNCHANGED <<meta_changed, _cache_timestamp, request, running, line,
                   response>>
    /\ UNCHANGED fsVars

\* content = read_file(file_path), on the file as it is now.  When the file
\* has been deleted since the stat, extract_text_from_pdf turns the exception
\* into an "Error ..." string and read_text raises FileNotFoundError, which
\* ends the load.
ExtractDocument ==
    /\ loading.pc = "extract"
    /\ LET d == ScanOrder[loading.i]
       IN IF disk[d].exists
          THEN /\ loading' = [loading EXCEPT !.pc = "store", !.content = ReadFile(d)]
               /\ documents' = NoLoad
          ELSE IF d.ext = "pdf"
          THEN /\ loading' = [loading EXCEPT !.pc = "store", !.content = TxtPdfError]
               /\ documents' = NoLoad
          ELSE /\ loading' = NotLoading
               /\ documents' = [NoLoad EXCEPT !.called = TRUE, !.raised = TRUE]
    /\ UNCHANGED <<meta_changed, _document_cache, _cache_timestamp, request,
                   running, line, response>>
    /\ UNCHANGED fsVars

\* Faulty variant: the mtime is read when the entry is stored.
StoredMtimeLate(file_mtime, d) == disk[d].mtime

\* `_document_cache[cache_key] = (content, file_mtime)`: the mtime stored is
\* the one read before the extraction.
StoredMtime(file_mtime, d) == file_mtime

\* The entry is stored and the record appended, for a text that is kept.
StoreDocument ==
    /\ loading.pc = "store"
    /\ LET d == ScanOrder[loading.i]
           k == CacheKey(d)
           content == loading.content
       IN /\ _document_cache' =
               IF Cacheable(content)
               THEN [x \in DOMAIN _document_cache \cup {k} |->
                       IF x = k
                       THEN [content |-> content,
                             mtime |-> StoredMtime(loading.file_mtime, d)]
                       ELSE _document_cache[x]]
               ELSE _document_cache
          /\ loading' = [loading EXCEPT !.pc = "stat", !.i = @ + 1,
                           !.file_mtime = 0, !.content = <<>>,
                           !.documents = IF Cacheable(content)
                                         THEN Append(@, Record(d, content))
                                         ELSE @]
    /\ documents' = NoLoad
    /\ UNCHANGED <<meta_changed, _cache_timestamp, request, running, line,
                   response>>
    /\ UNCHANGED fsVars

\* `return documents`
EndLoad ==
    /\ loading.pc = "stat"
    /\ loading.i > Len(ScanOrder)
    /\ documents' = [NoLoad EXCEPT !.called = TRUE, !.list = loading.documents]
    /\ loading' = NotLoading
    /\ UNCHANGED <<meta_changed, _document_cache, _cache_timestamp, request,
                   running, line, response>>
    /\ UNCHANGED fsVars

\* The server handles one request at a time: a clear_cache call runs between
\* loads.
RaceClear ==
    /\ loading.pc = "idle"
    /\ \E w \in Workbooks \cup {<<>>}, k \in Keys \cup {<<>>} : Clear(w, k)

\* Other processes write and delete files at any point of a load; every
\* write gives the file a later mtime.
RaceNext ==
    \/ Tick
    \/ \E d \in Docs : \E body \in Bodies(d) : StrictWriteFile(d, body)
    \/ \E d \in Docs : DeleteFile(d)
    \/ \E ws \in Scopes : BeginLoad(ws)
    \/ StatDocument
    \/ ExtractDocument
    \/ StoreDocument
    \/ EndLoad
    \/ RaceClear

RaceSpec == Init /\ [][RaceNext]_vars

\* C29: whenever files are written while a load runs, also between the
\* load's stat of a file and its extraction of the text, as long as every
\* write gives the file a later mtime: an entry that a load would take as a
\* cache hit holds the text that is in the file now.
C29_HitReturnsCurrentText ==
    \A d \in Docs :
      (disk[d].exists /\ CacheHit(_document_cache, d))
        => _document_cache[CacheKey(d)].content = ReadFile(d)

\* a.txt was rewritten between the stat and the extraction: the entry holds
\* the new text with the mtime the file had before.
C29_Witness ==
    /\ KeyA \in DOMAIN _document_cache
    /\ _document_cache[KeyA] = [content |-> TxtLatin1, mtime |-> 1]
    /\ disk[DocA] = [exists |-> TRUE, body |-> "binary", mtime |-> 2]

====
